---------------------------- MODULE Spec2Model ----------------------------
(***************************************************************************)
(* A model of the feature/task state engine of projspec:                   *)
(*   - projspec_cli/models/feature.py : FeaturePhase, TaskInfo,            *)
(*     FeatureState (construction-time validation, derived queries,        *)
(*     load_from_file / save_to_file);                                     *)
(*   - projspec_cli/services/status.py : task progress and next task;      *)
(*   - projspec/state.py : load_spec_state / save_spec_state.              *)
(*                                                                         *)
(* FeatureState is a pydantic BaseModel without validate_assignment, so    *)
(* its validators run when a model is constructed (the constructor and     *)
(* model_validate) and never when an attribute is assigned.                *)
(***************************************************************************)
EXTENDS Integers, Sequences, FiniteSets, TLC

VARIABLES
    feature,    \* the FeatureState object in memory, or NoFeature
    error,      \* what the last construction / load raised, or NoError
    file,       \* the content of the feature's state.yaml, or NoFile
    prevFile,   \* history: the content state.yaml had before the last completed save
    ret,        \* the last value returned by a query
    fields,     \* the keyword arguments handed to the constructor under test
    pc,         \* position of the process that saves step by step
    disk,       \* the temporary files of the feature directory: name -> file
    pending,    \* the serialized document the running save is writing
    tmpName,    \* the name of the temporary file of the running save_spec_state, or NoTmp
    oldDoc,     \* history: the content state.yaml had when the running save began
    hist,       \* history: the objects constructed, saved and loaded, in order
    w,          \* the concurrent callers of save_spec_state: writer -> its locals
    rd,         \* the concurrent caller of load_spec_state: its locals
    log,        \* history: the file-system calls made on the spec directory, in order
    dirExists,  \* the directory that holds state.yaml exists
    clock       \* the reading of datetime.now()

vars == <<feature, error, file, prevFile, ret, fields, pc, disk, pending, tmpName, oldDoc,
          hist, w, rd, log, dirExists, clock>>

\* absent values; records with other fields than the values they stand in for
NoFeature == [kind |-> "NoFeature"]
NoError == [kind |-> "none", errors |-> <<>>]
NoRet == [op |-> "none"]
NoTask == [kind |-> "None"]

\* Python's None where an id (a string) is expected
None == "None"

\* a path of the file system: absent, or a file holding a document
NoFile == [exists |-> FALSE, doc |-> <<>>]

File(doc) == [exists |-> TRUE, doc |-> doc]

NoTmp == ""

----------------------------------------------------------------------------
(* FeaturePhase                                                            *)

ordered_phases == <<"new", "spec", "plan", "tasks", "implement", "review", "complete">>

Phases == {ordered_phases[i] : i \in DOMAIN ordered_phases}

\* list.index(x): the first position holding x (0-based in the source, 1-based here)
index(seq, x) == CHOOSE i \in DOMAIN seq : seq[i] = x /\ \A j \in 1..(i - 1) : seq[j] # x

\* a transition rule that only looks forward: any later phase is accepted
can_transition_to_AnyForward(self, target) ==
    index(ordered_phases, target) >= index(ordered_phases, self)

can_transition_to(self, target) ==
    LET current_idx == index(ordered_phases, self)
        target_idx == index(ordered_phases, target)
    IN  target_idx = current_idx + 1 \/ target_idx = current_idx

----------------------------------------------------------------------------
(* TaskInfo, TaskStatus, TaskPriority                                      *)

TaskStatuses == {"pending", "in_progress", "completed", "skipped"}

TaskPriorities == {"P1", "P2", "P3"}

DefaultPriority == "P2"

\* the values a JSON-mode dump holds and yaml.safe_load returns, each kind a
\* record of its own: None, a str (a text: a sequence of pieces, the empty
\* text the empty sequence), an int (kept as the digits it was read from), a
\* datetime, a list, a dict (a sequence of key-value entries)
PyNone == [none |-> TRUE]

PyStr(text) == [str |-> text]

PyInt(text) == [int |-> text]

PyDatetime(t) == [datetime |-> t]

PyList(items) == [list |-> items]

PyDict(entries) == [dict |-> entries]

is_none(v) == "none" \in DOMAIN v

is_str(v) == "str" \in DOMAIN v

is_list(v) == "list" \in DOMAIN v

is_dict(v) == "dict" \in DOMAIN v

\* a str of one piece: a word
is_word(v) == is_str(v) /\ Len(v.str) = 1

\* the ids of the tasks of a list, by position; ids are distinct identifiers
TaskIdPool == <<"T001", "T002", "T003">>

\* an id that no task of the list carries
ExternalId == "T900"

\* re.match(r"^T\d{3}$", id)
matches_task_id(id) == id \in {TaskIdPool[i] : i \in DOMAIN TaskIdPool} \cup {ExternalId}

\* the name the tasks of the model are given
TaskName(id) == <<"Task ", id>>

\* TaskInfo(id=id, name=TaskName(id), status=status, priority=priority,
\* depends_on=depends_on): the other fields at their defaults.  An id, a
\* status and a priority are words, name and description are texts, summary
\* is None or a str, started and completed are None or a datetime.
TaskInfo(id, status, priority, depends_on) ==
    [id |-> id, name |-> TaskName(id), description |-> <<>>, status |-> status,
     priority |-> priority, depends_on |-> depends_on, context_files |-> <<>>,
     summary |-> PyNone, started |-> PyNone, completed |-> PyNone]

Elems(seq) == {seq[i] : i \in DOMAIN seq}

Min(S) == CHOOSE x \in S : \A y \in S : x <= y

Max(S) == CHOOSE x \in S : \A y \in S : x >= y

----------------------------------------------------------------------------
(* FeatureState: the dependency check run at construction                  *)

\* {task.id: task.status for task in tasks}: a later task with the same id
\* overwrites an earlier one
task_status_map(tasks) ==
    [id \in {tasks[i].id : i \in DOMAIN tasks} |->
        tasks[Max({i \in DOMAIN tasks : tasks[i].id = id})].status]

\* the (task, dependency) positions at which the loops of
\* validate_task_dependencies reach the raise statement
Offences(tasks) ==
    LET m == task_status_map(tasks)
        positions == UNION {{<<i, j>> : j \in DOMAIN tasks[i].depends_on} : i \in DOMAIN tasks}
    IN  {p \in positions :
            /\ tasks[p[1]].status = "in_progress"
            /\ tasks[p[1]].depends_on[p[2]] \in DOMAIN m
            /\ m[tasks[p[1]].depends_on[p[2]]] # "completed"}

\* the ValueError raised at a position
OffenceAt(tasks, i, j) ==
    [task |-> tasks[i].id,
     dep |-> tasks[i].depends_on[j],
     status |-> task_status_map(tasks)[tasks[i].depends_on[j]]]

\* a check that skips dependencies whose status is skipped
validate_task_dependencies_SkippedOk(tasks) ==
    LET off == {p \in Offences(tasks) :
                    task_status_map(tasks)[tasks[p[1]].depends_on[p[2]]] # "skipped"}
    IN  IF off = {} THEN <<>>
        ELSE LET i == Min({p[1] : p \in off})
                 j == Min({p[2] : p \in {q \in off : q[1] = i}})
             IN  <<OffenceAt(tasks, i, j)>>

\* validate_task_dependencies: the errors of the pydantic ValidationError the
\* validator's ValueError becomes (empty: the model is accepted).  The loops
\* raise at the first offending task, at its first offending dependency.
validate_task_dependencies(tasks) ==
    LET off == Offences(tasks)
    IN  IF off = {} THEN <<>>
        ELSE LET i == Min({p[1] : p \in off})
                 j == Min({p[2] : p \in {q \in off : q[1] = i}})
             IN  <<OffenceAt(tasks, i, j)>>

----------------------------------------------------------------------------
(* FeatureState: derived queries                                           *)

get_task_by_id(tasks, task_id) ==
    LET hits == {i \in DOMAIN tasks : tasks[i].id = task_id}
    IN  IF hits = {} THEN NoTask ELSE tasks[Min(hits)]

completed_ids(tasks) ==
    {tasks[i].id : i \in {k \in DOMAIN tasks : tasks[k].status = "completed"}}

\* a ready-queue that is satisfied by one completed dependency
get_available_tasks_AnyDep(tasks) ==
    LET Ready(t) == /\ t.status = "pending"
                    /\ (t.depends_on = <<>> \/
                        \E d \in Elems(t.depends_on) : d \in completed_ids(tasks))
    IN  SelectSeq(tasks, Ready)

get_available_tasks(tasks) ==
    LET Ready(t) == /\ t.status = "pending"
                    /\ \A d \in Elems(t.depends_on) : d \in completed_ids(tasks)
    IN  SelectSeq(tasks, Ready)

----------------------------------------------------------------------------
(* services/status.py: TaskProgress, progress counters, next task          *)

CountStatus(tasks, st) == Cardinality({i \in DOMAIN tasks : tasks[i].status = st})

\* progress that counts only completed tasks as done
calculate_task_progress_NoSkipped(tasks) ==
    [total |-> Len(tasks),
     pending |-> CountStatus(tasks, "pending"),
     in_progress |-> CountStatus(tasks, "in_progress"),
     completed |-> CountStatus(tasks, "completed"),
     skipped |-> 0]

\* _calculate_task_progress: TaskProgress(total=len(tasks)), then one counter
\* incremented per task according to its status
calculate_task_progress(tasks) ==
    [total |-> Len(tasks),
     pending |-> CountStatus(tasks, "pending"),
     in_progress |-> CountStatus(tasks, "in_progress"),
     completed |-> CountStatus(tasks, "completed"),
     skipped |-> CountStatus(tasks, "skipped")]

RECURSIVE Gcd(_, _)
Gcd(a, b) == IF b = 0 THEN a ELSE Gcd(b, a % b)

\* a non-negative rational number in lowest terms
Rat(n, d) == [num |-> n \div Gcd(n, d), den |-> d \div Gcd(n, d)]

RatTimes(r, k) == Rat(r.num * k, r.den)

\* TaskProgress.percentage: ((completed + skipped) / total) * 100, and 0.0
\* for total == 0; the quotient is kept exact
percentage(progress) ==
    IF progress.total = 0 THEN Rat(0, 1)
    ELSE RatTimes(Rat(progress.completed + progress.skipped, progress.total), 100)

\* TaskProgress.is_complete
is_complete(progress) ==
    progress.total > 0 /\ (progress.completed + progress.skipped) = progress.total

\* a next-task rule that prefers the highest priority among the ready tasks
get_next_available_task_ByPriority(tasks) ==
    LET ready == {i \in DOMAIN tasks :
                    /\ tasks[i].status = "pending"
                    /\ \A d \in Elems(tasks[i].depends_on) : d \in completed_ids(tasks)}
        Rank(i) == index(<<"P1", "P2", "P3">>, tasks[i].priority)
        best == {i \in ready : \A k \in ready : Rank(i) <= Rank(k)}
    IN  IF ready = {} THEN None ELSE tasks[Min(best)].id

\* _get_next_available_task: the id of the first task, in list order, that is
\* pending with every dependency id among the completed ids; None otherwise
get_next_available_task(tasks) ==
    LET ready == {i \in DOMAIN tasks :
                    /\ tasks[i].status = "pending"
                    /\ \A d \in Elems(tasks[i].depends_on) : d \in completed_ids(tasks)}
    IN  IF ready = {} THEN None ELSE tasks[Min(ready)].id

----------------------------------------------------------------------------
(* FeatureState: construction and (de)serialization                        *)

FeatureId == "001"

FeatureName == "user-auth"

DefaultPhase == "new"

\* the mapping handed to the constructor / found in a state file: a sequence
\* of key-value entries in document order
Entry(k, v) == [key |-> k, val |-> v]

Keys(doc) == {doc[i].key : i \in DOMAIN doc}

Get(doc, k, default) ==
    IF k \in Keys(doc) THEN doc[Max({i \in DOMAIN doc : doc[i].key = k})].val
    ELSE default

\* a text is a sequence of pieces, the empty text the empty sequence
\* full_name: f"{self.id}-{self.name}"
full_name(id, name) == <<id, "-", name>>

DefaultWorktreeStatus == "active"

WorktreeStatuses == {"active", "archived", "pruned"}

----------------------------------------------------------------------------
(* datetime and its ISO 8601 text                                          *)

\* the clock counts half seconds from 2024-01-01T00:00:00: a datetime is the
\* reading of the clock, with a second and a microsecond
second(t) == t \div 2

microsecond(t) == (t % 2) * 500000

\* the date, the hour and the minute of every reading of the clock
DatePart == "2024-01-01T00:00:"

Digits == <<"0", "1", "2", "3", "4", "5", "6", "7", "8", "9">>

digit(d) == Digits[d + 1]

digit_value(c) == index(Digits, c) - 1

\* "%02d" and "%06d"
two_digits(n) == <<digit(n \div 10), digit(n % 10)>>

six_digits(n) == [i \in 1..6 |-> digit((n \div (10 ^ (6 - i))) % 10)]

\* the value of a text of digits
RECURSIVE digits_value(_)
digits_value(text) ==
    IF text = <<>> THEN 0
    ELSE 10 * digits_value(SubSeq(text, 1, Len(text) - 1)) + digit_value(text[Len(text)])

\* a dump of datetimes to the second, as strftime("%Y-%m-%dT%H:%M:%S") gives
isoformat_Seconds(t) == <<DatePart>> \o two_digits(second(t))

\* the text model_dump(mode="json") writes for a datetime: the ISO 8601 text
\* of datetime.isoformat(), the microseconds left out when they are zero
isoformat(t) ==
    <<DatePart>> \o two_digits(second(t)) \o
        (IF microsecond(t) = 0 THEN <<>> ELSE <<".">> \o six_digits(microsecond(t)))

\* the texts pydantic reads a datetime from: date, "T", time to the second,
\* and six digits of a fraction or none
is_iso(text) ==
    /\ Len(text) \in {3, 10}
    /\ text[1] = DatePart
    /\ \A i \in 2..3 : text[i] \in Elems(Digits)
    /\ digits_value(SubSeq(text, 2, 3)) < 60
    /\ Len(text) = 10 =>
        /\ text[4] = "."
        /\ \A i \in 5..10 : text[i] \in Elems(Digits)

\* the datetime pydantic reads from such a text, to the half second the
\* clock counts
fromisoformat(text) ==
    2 * digits_value(SubSeq(text, 2, 3)) +
        (IF Len(text) = 3 THEN 0 ELSE digits_value(SubSeq(text, 5, 10)) \div 500000)

----------------------------------------------------------------------------
(* model_dump(mode="json") and model validation of TaskInfo                *)

\* an optional datetime of a JSON-mode dump: None, or the ISO text
json_datetime(v) == IF is_none(v) THEN PyNone ELSE PyStr(isoformat(v.datetime))

\* a TaskInfo as model_dump(mode="json") writes it: a mapping, the fields in
\* declaration order, the Enum members as their values
task_dump(t) ==
    <<Entry("id", PyStr(<<t.id>>)),
      Entry("name", PyStr(t.name)),
      Entry("description", PyStr(t.description)),
      Entry("status", PyStr(<<t.status>>)),
      Entry("priority", PyStr(<<t.priority>>)),
      Entry("depends_on", PyList([k \in DOMAIN t.depends_on |-> PyStr(<<t.depends_on[k]>>)])),
      Entry("context_files",
            PyList([k \in DOMAIN t.context_files |-> PyStr(t.context_files[k])])),
      Entry("summary", t.summary),
      Entry("started", json_datetime(t.started)),
      Entry("completed", json_datetime(t.completed))>>

TaskFields ==
    {"id", "name", "description", "status", "priority", "depends_on", "context_files",
     "summary", "started", "completed"}

\* a value pydantic reads a datetime from: a datetime, or an ISO text (the
\* state files of the model hold no number under the key of a datetime)
is_datetime(v) == "datetime" \in DOMAIN v \/ (is_str(v) /\ is_iso(v.str))

datetime_of(v) == IF "datetime" \in DOMAIN v THEN v.datetime ELSE fromisoformat(v.str)

\* a list of str, the str one word each
is_word_list(v) == is_list(v) /\ \A k \in DOMAIN v.list : is_word(v.list[k])

\* pydantic's check of one value of a mapping against its field of TaskInfo:
\* a key that is no field is ignored; id and the items of depends_on match
\* ^T\d{3}$, name has a character at least, status and priority are members
\* of their Enum, summary, started and completed may be None
task_field_accepts(e) ==
    IF e.key \notin TaskFields THEN TRUE
    ELSE IF e.key = "id" THEN is_word(e.val) /\ matches_task_id(e.val.str[1])
    ELSE IF e.key = "name" THEN is_str(e.val) /\ e.val.str # <<>>
    ELSE IF e.key = "description" THEN is_str(e.val)
    ELSE IF e.key = "status" THEN is_word(e.val) /\ e.val.str[1] \in TaskStatuses
    ELSE IF e.key = "priority" THEN is_word(e.val) /\ e.val.str[1] \in TaskPriorities
    ELSE IF e.key = "depends_on"
    THEN is_word_list(e.val) /\ \A k \in DOMAIN e.val.list : matches_task_id(e.val.list[k].str[1])
    ELSE IF e.key = "context_files"
    THEN is_list(e.val) /\ \A k \in DOMAIN e.val.list : is_str(e.val.list[k])
    ELSE IF e.key = "summary" THEN is_none(e.val) \/ is_str(e.val)
    ELSE is_none(e.val) \/ is_datetime(e.val)

\* TaskInfo.model_validate(v) raises nothing: v is a mapping with the
\* required id and name whose values are of the types of the fields
task_accepts(v) ==
    /\ is_dict(v)
    /\ {"id", "name"} \subseteq Keys(v.dict)
    /\ \A k \in DOMAIN v.dict : task_field_accepts(v.dict[k])

\* an optional datetime read from a value that is_datetime or is None
optional_datetime(v) == IF is_none(v) THEN PyNone ELSE PyDatetime(datetime_of(v))

\* the TaskInfo validated from a mapping that task_accepts: the defaults of
\* the fields the mapping has no key for
task_validate(m) ==
    [id |-> Get(m, "id", PyNone).str[1],
     name |-> Get(m, "name", PyNone).str,
     description |-> Get(m, "description", PyStr(<<>>)).str,
     status |-> Get(m, "status", PyStr(<<"pending">>)).str[1],
     priority |-> Get(m, "priority", PyStr(<<DefaultPriority>>)).str[1],
     depends_on |-> [k \in DOMAIN Get(m, "depends_on", PyList(<<>>)).list |->
                        Get(m, "depends_on", PyList(<<>>)).list[k].str[1]],
     context_files |-> [k \in DOMAIN Get(m, "context_files", PyList(<<>>)).list |->
                            Get(m, "context_files", PyList(<<>>)).list[k].str],
     summary |-> Get(m, "summary", PyNone),
     started |-> optional_datetime(Get(m, "started", PyNone)),
     completed |-> optional_datetime(Get(m, "completed", PyNone))]

----------------------------------------------------------------------------
(* yaml.dump and yaml.safe_load                                            *)

\* the nodes of a YAML document of block style: a scalar written plain or in
\* quotes, a sequence ("- item" lines, "[]" when it is empty), a mapping
\* ("key: value" lines)
Plain(text) == [plain |-> text]

Quoted(text) == [quoted |-> text]

BlockSeq(items) == [seq |-> items]

BlockMap(lines) == [map |-> lines]

is_scalar(n) == "plain" \in DOMAIN n \/ "quoted" \in DOMAIN n

\* the words of the model that are digits only; YAML reads each as an int
\* (of base 8, for the zero it begins with)
IntWords == {"001", "002", "003", "004"}

\* a text that YAML reads as an int: such a word alone
digits_only(text) == Len(text) = 1 /\ text[1] \in IntWords

\* the tag the implicit resolvers of PyYAML give a plain scalar: null for the
\* empty text and for "null", int for digits, timestamp for an ISO text, str
\* for the other texts of the model
resolve(text) ==
    IF text = <<>> \/ text = <<"null">> THEN "null"
    ELSE IF digits_only(text) THEN "int"
    ELSE IF is_iso(text) THEN "timestamp"
    ELSE "str"

\* a text without the blanks it ends with: the one piece of the model's texts
\* that ends with a blank is the first piece of a task's default name
rstrip(text) ==
    IF text # <<>> /\ text[Len(text)] = "Task "
    THEN [text EXCEPT ![Len(text)] = "Task"]
    ELSE text

\* the scalar yaml.dump writes for a str: plain when the plain text reads
\* back as the same str (it resolves to a str and ends with no blank), in
\* quotes otherwise
represent_str(text) ==
    IF resolve(text) = "str" /\ rstrip(text) = text THEN Plain(text) ELSE Quoted(text)

\* the node yaml.dump(default_flow_style=False) writes for a value of a
\* JSON-mode dump: None as the plain scalar null
RECURSIVE represent(_)
represent(v) ==
    IF is_none(v) THEN Plain(<<"null">>)
    ELSE IF is_str(v) THEN represent_str(v.str)
    ELSE IF is_list(v) THEN BlockSeq([k \in DOMAIN v.list |-> represent(v.list[k])])
    ELSE BlockMap([k \in DOMAIN v.dict |-> Entry(v.dict[k].key, represent(v.dict[k].val))])

\* yaml.dump(data, default_flow_style=False, sort_keys=False) of a mapping:
\* one "key: value" line (with the lines of a nested value) per entry, in
\* the order of the mapping
yaml_dump(data) == [k \in DOMAIN data |-> Entry(data[k].key, represent(data[k].val))]

\* the value yaml.safe_load constructs from a plain scalar of a tag
construct_plain(tag, text) ==
    IF tag = "null" THEN PyNone
    ELSE IF tag = "int" THEN PyInt(text)
    ELSE IF tag = "timestamp" THEN PyDatetime(fromisoformat(text))
    ELSE PyStr(text)

\* the value yaml.safe_load constructs from a scalar: the text in quotes as
\* a str; the plain text, which the scanner reads without the blanks that
\* end it, as its tag says
construct_scalar(n) ==
    IF "quoted" \in DOMAIN n THEN PyStr(n.quoted)
    ELSE construct_plain(resolve(rstrip(n.plain)), rstrip(n.plain))

\* the value yaml.safe_load constructs from a node
RECURSIVE construct(_)
construct(n) ==
    IF is_scalar(n) THEN construct_scalar(n)
    ELSE IF "seq" \in DOMAIN n THEN PyList([k \in DOMAIN n.seq |-> construct(n.seq[k])])
    ELSE PyDict([k \in DOMAIN n.map |-> Entry(n.map[k].key, construct(n.map[k].val))])

\* an item of a YAML sequence at the top level of a document
ListItem(v) == Entry("-", v)

\* a document that is one plain scalar and no "key:" at all, as the first
\* letters of the first key are
BareScalar == [key |-> "<scalar>", val |-> "<scalar>"]

\* isinstance(data, dict) for what yaml.safe_load returned
is_mapping(data) == \A i \in DOMAIN data : data[i].key \notin {"-", "<scalar>"}

\* what a write cut short in the middle of a line may leave behind: text that
\* is no "key: value" line, as a key without its colon after other lines or a
\* quoted value without its closing quote are
TornLine == [key |-> "<torn>", val |-> "<torn>"]

\* yaml.safe_load raises yaml.YAMLError on a document with such a line
yaml_malformed(f) == \E i \in DOMAIN f.doc : f.doc[i].key = "<torn>"

\* bytes that are no UTF-8 text: reading the file, opened with
\* encoding="utf-8", raises UnicodeDecodeError, which is neither a
\* yaml.YAMLError nor an OSError
BadBytes == [key |-> "<bytes>", val |-> "<bytes>"]

undecodable(f) == \E i \in DOMAIN f.doc : f.doc[i].key = "<bytes>"

\* the lines of a file that are no "key: value" line of a mapping
OtherLines == {"-", "<scalar>", "<torn>", "<bytes>"}

\* yaml.safe_load of a well-formed file: the mapping of its "key: value"
\* lines, each value constructed from its node; a file without any line
\* loads as Python's None (YamlNone)
safe_load(f) ==
    [i \in DOMAIN f.doc |->
        IF f.doc[i].key \in OtherLines THEN f.doc[i]
        ELSE Entry(f.doc[i].key, construct(f.doc[i].val))]

YamlNone == <<>>

----------------------------------------------------------------------------
(* FeatureState.model_validate                                             *)

\* a value of a mapping that is not of the type of its field
Rejected(k) == [key |-> k, rejected |-> TRUE]

\* an entry whose value is of the type of its field
HasText(e) == "val" \in DOMAIN e

\* pydantic's conversion of a value yaml.safe_load yields to a str field
\* whose values are single words here (an id, a name, an Enum member), to a
\* str field, to a datetime field
as_word(k, v) == IF is_word(v) THEN Entry(k, v.str[1]) ELSE Rejected(k)

as_text(k, v) == IF is_str(v) THEN Entry(k, v.str) ELSE Rejected(k)

as_datetime(k, v) == IF is_datetime(v) THEN Entry(k, datetime_of(v)) ELSE Rejected(k)

\* ... to the field tasks: a list of mappings, each validated as a TaskInfo
as_tasks(k, v) ==
    IF is_list(v) /\ \A i \in DOMAIN v.list : task_accepts(v.list[i])
    THEN Entry(k, [i \in DOMAIN v.list |-> task_validate(v.list[i].dict)])
    ELSE Rejected(k)

\* pydantic's conversion of the values yaml.safe_load yields to the types of
\* the fields of FeatureState: texts to words and Enum members, ISO texts to
\* datetimes, mappings to TaskInfo objects; a value that does not convert is
\* rejected.  The arguments of a constructor call are of these types already.
coerce(data) ==
    [i \in DOMAIN data |->
        IF data[i].key \in {"id", "name", "phase", "worktree_status"}
        THEN as_word(data[i].key, data[i].val)
        ELSE IF data[i].key \in {"description", "branch", "worktree_path"}
        THEN as_text(data[i].key, data[i].val)
        ELSE IF data[i].key \in {"created", "updated"}
        THEN as_datetime(data[i].key, data[i].val)
        ELSE IF data[i].key = "tasks"
        THEN as_tasks(data[i].key, data[i].val)
        ELSE data[i]]

\* the fields of FeatureState
FeatureFields ==
    {"id", "name", "description", "phase", "created", "updated", "branch", "worktree_path",
     "worktree_status", "tasks"}

\* pydantic's check of one value against its field: a key that is no field
\* is ignored (extra="ignore", the default); a value that is not of the type
\* of the field is rejected, a word is a member of the Enum or it is not
field_accepts(e) ==
    IF e.key \notin FeatureFields THEN TRUE
    ELSE IF ~HasText(e) THEN FALSE
    ELSE IF e.key = "phase" THEN e.val \in Phases
    ELSE IF e.key = "worktree_status" THEN e.val \in WorktreeStatuses
    ELSE TRUE

\* the errors of a ValidationError: the required fields that are missing, the
\* fields whose value is not of the field's type
FieldErrors(missing, invalid) ==
    (IF missing # {} THEN <<[missing |-> missing]>> ELSE <<>>) \o
    (IF invalid # {} THEN <<[invalid |-> invalid]>> ELSE <<>>)

\* FeatureState(**data) / FeatureState.model_validate(data): a mapping is
\* expected; the required fields id and name, the defaults of the other
\* fields (created and updated from datetime.now()), then the model
\* validators: branch and worktree_path from full_name when empty, the
\* dependency check.  Returns the model, or the errors of the ValidationError.
model_validate(data) ==
    LET missing == {"id", "name"} \ Keys(data)
        invalid == {data[i].key : i \in {j \in DOMAIN data : ~field_accepts(data[j])}}
        tasks == Get(data, "tasks", <<>>)
        id == Get(data, "id", None)
        name == Get(data, "name", None)
    IN  IF ~is_mapping(data)
        THEN [ok |-> FALSE, errors |-> <<[type |-> "model_type"]>>]
        ELSE IF missing # {} \/ invalid # {}
        THEN [ok |-> FALSE, errors |-> FieldErrors(missing, invalid)]
        ELSE IF validate_task_dependencies(tasks) # <<>>
        THEN [ok |-> FALSE, errors |-> validate_task_dependencies(tasks)]
        ELSE [ok |-> TRUE,
              value |-> [id |-> id,
                         name |-> name,
                         description |-> Get(data, "description", <<>>),
                         phase |-> Get(data, "phase", DefaultPhase),
                         created |-> Get(data, "created", clock),
                         updated |-> Get(data, "updated", clock),
                         branch |-> IF Get(data, "branch", <<>>) = <<>>
                                    THEN full_name(id, name)
                                    ELSE Get(data, "branch", <<>>),
                         worktree_path |-> IF Get(data, "worktree_path", <<>>) = <<>>
                                           THEN <<"worktrees/">> \o full_name(id, name)
                                           ELSE Get(data, "worktree_path", <<>>),
                         worktree_status |-> Get(data, "worktree_status", DefaultWorktreeStatus),
                         tasks |-> tasks]]

\* _to_yaml_dict: model_dump(mode="json") without full_name, the fields in
\* declaration order, the Enum members as their values, the datetimes as
\* their ISO texts
to_yaml_dict(f) ==
    <<Entry("id", PyStr(<<f.id>>)),
      Entry("name", PyStr(<<f.name>>)),
      Entry("description", PyStr(f.description)),
      Entry("phase", PyStr(<<f.phase>>)),
      Entry("created", PyStr(isoformat(f.created))),
      Entry("updated", PyStr(isoformat(f.updated))),
      Entry("branch", PyStr(f.branch)),
      Entry("worktree_path", PyStr(f.worktree_path)),
      Entry("worktree_status", PyStr(<<f.worktree_status>>)),
      Entry("tasks", PyList([k \in DOMAIN f.tasks |-> PyDict(task_dump(f.tasks[k]))]))>>

\* the text save_to_file writes: yaml.dump of _to_yaml_dict()
yaml_text(f) == yaml_dump(to_yaml_dict(f))

\* the fields a state file holds: its mapping as yaml.safe_load and pydantic
\* read it
Persisted(f) == coerce(safe_load(f))

----------------------------------------------------------------------------
(* Operations on one FeatureState object and its state file               *)

\* f = FeatureState(**data): a ValidationError leaves no object behind
Construct(data) ==
    LET r == model_validate(data)
    IN  /\ feature' = IF r.ok THEN r.value ELSE feature
        /\ error' = IF r.ok THEN NoError
                    ELSE [kind |-> "ValidationError", errors |-> r.errors]
        /\ ret' = NoRet

\* f.phase = p: a plain attribute assignment, no validator runs
SetPhase(p) ==
    /\ feature # NoFeature
    /\ feature' = [feature EXCEPT !.phase = p]
    /\ error' = NoError
    /\ ret' = NoRet

\* f.tasks[i].status = st: a plain attribute assignment, no validator runs
SetTaskStatus(i, st) ==
    /\ feature # NoFeature
    /\ i \in DOMAIN feature.tasks
    /\ feature' = [feature EXCEPT !.tasks[i].status = st]
    /\ error' = NoError
    /\ ret' = NoRet

\* f.phase.can_transition_to(target)
CanTransitionTo(target) ==
    /\ feature # NoFeature
    /\ ret' = [op |-> "can_transition_to", self |-> feature.phase, target |-> target,
               result |-> can_transition_to(feature.phase, target)]
    /\ UNCHANGED <<feature, error>>

\* f.get_available_tasks()
GetAvailableTasks ==
    /\ feature # NoFeature
    /\ ret' = [op |-> "get_available_tasks", tasks |-> feature.tasks,
               result |-> get_available_tasks(feature.tasks)]
    /\ UNCHANGED <<feature, error>>

\* f.save_to_file(path), run to completion: the parent directory is created
\* when it is missing, updated is set to datetime.now(), the file is opened
\* for writing and the whole document is dumped into it; nothing is validated
SaveToFile ==
    /\ feature # NoFeature
    /\ dirExists' = TRUE
    /\ feature' = [feature EXCEPT !.updated = clock]
    /\ file' = File(yaml_text(feature'))
    /\ error' = NoError
    /\ ret' = NoRet

\* FeatureState.load_from_file(path): the FeatureState, or the exception raised
load_from_file(f) ==
    IF ~f.exists THEN [ok |-> FALSE, error |-> [kind |-> "FileNotFoundError", errors |-> <<>>]]
    ELSE IF undecodable(f)
    THEN [ok |-> FALSE, error |-> [kind |-> "UnicodeDecodeError", errors |-> <<>>]]
    ELSE IF yaml_malformed(f) THEN [ok |-> FALSE, error |-> [kind |-> "YAMLError", errors |-> <<>>]]
    ELSE IF safe_load(f) = YamlNone
    THEN [ok |-> FALSE, error |-> [kind |-> "ValueError", errors |-> <<"empty">>]]
    ELSE IF ~model_validate(coerce(safe_load(f))).ok
    THEN [ok |-> FALSE,
          error |-> [kind |-> "ValidationError",
                     errors |-> model_validate(coerce(safe_load(f))).errors]]
    ELSE [ok |-> TRUE, value |-> model_validate(coerce(safe_load(f))).value]

\* f = FeatureState.load_from_file(path): an exception leaves f as it was
LoadFromFile ==
    LET r == load_from_file(file)
    IN  /\ feature' = IF r.ok THEN r.value ELSE feature
        /\ error' = IF r.ok THEN NoError ELSE r.error
        /\ ret' = NoRet

----------------------------------------------------------------------------
(* Spec: the phase of one feature over its life: created once, its phase   *)
(* assigned, queried, saved and loaded                                     *)

\* the names mkstemp(prefix="state_", suffix=".yaml.tmp") may return
TmpNames == {"state_a.yaml.tmp", "state_b.yaml.tmp"}

\* the processes that call save_spec_state on the same spec at the same time
Writers == {1, 2}

\* the locals of a save_spec_state call that has not started
IdleWriter == [pc |-> "idle", temp_path |-> NoTmp, yaml_content |-> <<>>, raised |-> "none"]

\* the locals of a load_spec_state call that has not started
IdleReader == [pc |-> "idle", data |-> NoFile, raised |-> "none"]

envVars == <<w, rd, log, hist, clock>>

IdleStore ==
    /\ pc = "idle"
    /\ disk = [n \in TmpNames |-> NoFile]
    /\ pending = <<>>
    /\ tmpName = NoTmp
    /\ oldDoc = NoFile
    /\ w = [i \in Writers |-> IdleWriter]
    /\ rd = IdleReader
    /\ log = <<>>
    /\ hist = <<>>
    /\ dirExists = TRUE
    /\ clock = 0

Init ==
    /\ feature = NoFeature
    /\ error = NoError
    /\ file = NoFile
    /\ prevFile = NoFile
    /\ ret = NoRet
    /\ fields = <<>>
    /\ IdleStore

storeVars == <<pc, disk, pending, tmpName, oldDoc, envVars>>

restVars == <<storeVars, dirExists>>

CreateFeature ==
    /\ feature = NoFeature
    /\ \E data \in {<<Entry("id", FeatureId), Entry("name", FeatureName)>>} \cup
                   {<<Entry("id", FeatureId), Entry("name", FeatureName), Entry("phase", p)>> :
                        p \in Phases} :
            Construct(data)
    /\ UNCHANGED <<file, prevFile, fields, restVars>>

AssignPhase ==
    /\ \E p \in Phases : SetPhase(p)
    /\ UNCHANGED <<file, prevFile, fields, restVars>>

QueryTransition ==
    /\ \E t \in Phases : CanTransitionTo(t)
    /\ UNCHANGED <<file, prevFile, fields, restVars>>

Save ==
    /\ SaveToFile
    /\ prevFile' = file
    /\ UNCHANGED <<fields, storeVars>>

Load ==
    /\ LoadFromFile
    /\ UNCHANGED <<file, prevFile, fields, restVars>>

Next == CreateFeature \/ AssignPhase \/ QueryTransition \/ Save \/ Load

Spec == Init /\ [][Next]_vars

\* the ordered pairs (p, t) with t = p or t the phase right after p
AllowedPairs ==
    {<<p, p>> : p \in Phases} \cup
    {<<"new", "spec">>, <<"spec", "plan">>, <<"plan", "tasks">>,
     <<"tasks", "implement">>, <<"implement", "review">>, <<"review", "complete">>}

\* C1: can_transition_to(p, t) is true exactly for t = p and for t the phase
\* immediately after p, for every ordered pair of the seven phases
C1_CanTransitionSameOrNext ==
    ret.op = "can_transition_to" =>
        (ret.result <=> <<ret.self, ret.target>> \in AllowedPairs)

\* a skip (new to tasks) has been asked and rejected
C1_Witness ==
    /\ ret.op = "can_transition_to"
    /\ ret.self = "new"
    /\ ret.target = "tasks"
    /\ ret.result = FALSE

\* C2: from one saved version of the state file to the next, the persisted
\* phase stays the same or advances to the immediately next phase
C2_PersistedPhaseNeverSkipsOrRegresses ==
    (prevFile.exists /\ file.exists) =>
        <<Get(Persisted(prevFile), "phase", DefaultPhase),
          Get(Persisted(file), "phase", DefaultPhase)>>
            \in AllowedPairs

----------------------------------------------------------------------------
(* SpecDeps: one constructor call FeatureState(id, name, tasks) on a task  *)
(* list drawn from a bounded family, then the queries on the result        *)

MaxTasks == Len(TaskIdPool)

MaxDeps == 2

DepIdPool == SubSeq(TaskIdPool, 1, MaxTasks) \o <<ExternalId>>

\* the depends_on lists: up to MaxDeps distinct ids, in the pool's order
DepChoices ==
    LET Keep(S) == LET In(x) == x \in S IN SelectSeq(DepIdPool, In)
    IN  {Keep(S) : S \in {T \in SUBSET Elems(DepIdPool) : Cardinality(T) <= MaxDeps}}

\* the priorities of a list: the default everywhere, or the lowest priority
\* declared first and the highest last
PriorityPatterns ==
    {[i \in 1..MaxTasks |-> DefaultPriority],
     [i \in 1..MaxTasks |-> IF i = 1 THEN "P3" ELSE IF i = MaxTasks THEN "P1" ELSE "P2"]}

\* the task list of n tasks with the given statuses, dependencies, priorities
TaskList(n, st, deps, pr) ==
    [i \in 1..n |-> TaskInfo(TaskIdPool[i], st[i], pr[i], deps[i])]

FieldsOf(tasks) ==
    <<Entry("id", FeatureId), Entry("name", FeatureName), Entry("tasks", tasks)>>

InitDeps ==
    /\ feature = NoFeature
    /\ error = NoError
    /\ file = NoFile
    /\ prevFile = NoFile
    /\ ret = NoRet
    /\ \E n \in 0..MaxTasks :
        \E st \in [1..n -> TaskStatuses], deps \in [1..n -> DepChoices],
           pr \in PriorityPatterns :
            fields = FieldsOf(TaskList(n, st, deps, pr))
    /\ IdleStore

Attempted == feature # NoFeature \/ error # NoError

ConstructFields ==
    /\ ~Attempted
    /\ Construct(fields)
    /\ UNCHANGED <<file, prevFile, fields, restVars>>

AvailableTasks ==
    /\ GetAvailableTasks
    /\ UNCHANGED <<file, prevFile, fields, restVars>>

\* _get_next_available_task(tasks) on the tasks status reporting obtained
NextAvailableTask ==
    /\ Attempted
    /\ ret' = [op |-> "get_next_available_task", tasks |-> Get(fields, "tasks", <<>>),
               result |-> get_next_available_task(Get(fields, "tasks", <<>>))]
    /\ UNCHANGED <<feature, error, file, prevFile, fields, restVars>>

\* _calculate_task_progress(tasks) and the percentage property of its result
TaskProgress ==
    /\ Attempted
    /\ ret' = [op |-> "calculate_task_progress", tasks |-> Get(fields, "tasks", <<>>),
               result |-> calculate_task_progress(Get(fields, "tasks", <<>>)),
               percentage |-> percentage(calculate_task_progress(Get(fields, "tasks", <<>>)))]
    /\ UNCHANGED <<feature, error, file, prevFile, fields, restVars>>

NextDeps == ConstructFields \/ AvailableTasks \/ NextAvailableTask \/ TaskProgress

SpecDeps == InitDeps /\ [][NextDeps]_vars

\* the tasks given to the constructor call under test
InputTasks == Get(fields, "tasks", <<>>)

\* the status of the task that carries id d (ids are distinct in the inputs)
StatusOfId(tasks, d) == tasks[CHOOSE i \in DOMAIN tasks : tasks[i].id = d].status

Listed(tasks) == {tasks[i].id : i \in DOMAIN tasks}

\* task i is in_progress and has a dependency inside the list that is not completed
OffendingTask(tasks, i) ==
    /\ tasks[i].status = "in_progress"
    /\ \E d \in Elems(tasks[i].depends_on) :
            d \in Listed(tasks) /\ StatusOfId(tasks, d) \in {"pending", "in_progress", "skipped"}

\* C3: construction is rejected by the dependency check exactly when some
\* in_progress task has a dependency id present in the task list whose task is
\* not completed; ids outside the list never cause rejection; an accepted
\* feature has every same-feature dependency of every in_progress task completed
C3_RejectedIffIncompleteDependency ==
    Attempted =>
        /\ (error.kind = "ValidationError") <=>
                (\E i \in DOMAIN InputTasks : OffendingTask(InputTasks, i))
        /\ (error.kind = "ValidationError") <=> (feature = NoFeature)
        /\ feature # NoFeature =>
                /\ feature.tasks = InputTasks
                /\ \A i \in DOMAIN feature.tasks :
                        feature.tasks[i].status = "in_progress" =>
                            \A d \in Elems(feature.tasks[i].depends_on) :
                                d \in Listed(feature.tasks) =>
                                    StatusOfId(feature.tasks, d) = "completed"

\* a rejection whose only incomplete dependency is a skipped task, next to a
\* dependency outside the list
C3_Witness ==
    /\ error.kind = "ValidationError"
    /\ feature = NoFeature
    /\ \E i \in DOMAIN InputTasks :
        /\ InputTasks[i].status = "in_progress"
        /\ ExternalId \in Elems(InputTasks[i].depends_on)
        /\ \E d \in Elems(InputTasks[i].depends_on) :
                d \in Listed(InputTasks) /\ StatusOfId(InputTasks, d) = "skipped"
    /\ \A i \in DOMAIN InputTasks : \A d \in Elems(InputTasks[i].depends_on) :
            d \in Listed(InputTasks) => StatusOfId(InputTasks, d) \in {"skipped", "completed"}

\* C5: the ValidationError of a rejected construction reports every offending
\* task, not only the first one in declaration order
C5_ErrorReportsEveryOffendingTask ==
    error.kind = "ValidationError" =>
        {error.errors[k].task : k \in DOMAIN error.errors} =
            {InputTasks[i].id : i \in {k \in DOMAIN InputTasks : OffendingTask(InputTasks, k)}}

\* the tasks of a list at the positions of E, in list order
RECURSIVE TasksAt(_, _, _)
TasksAt(tasks, E, i) ==
    IF i > Len(tasks) THEN <<>>
    ELSE (IF i \in E THEN <<tasks[i]>> ELSE <<>>) \o TasksAt(tasks, E, i + 1)

AllDepsListed(tasks) ==
    \A i \in DOMAIN tasks : Elems(tasks[i].depends_on) \subseteq Listed(tasks)

\* task i is pending and each of its dependencies inside the list is completed
EligibleInList(tasks, i) ==
    /\ tasks[i].status = "pending"
    /\ \A d \in Elems(tasks[i].depends_on) :
            d \in Listed(tasks) => StatusOfId(tasks, d) = "completed"

\* C6: when every dependency id resolves inside the task list,
\* available_tasks() is exactly the pending tasks whose every dependency is
\* completed, in declaration order
C6_AvailableExactlyEligibleInOrder ==
    (ret.op = "get_available_tasks" /\ AllDepsListed(ret.tasks)) =>
        ret.result =
            TasksAt(ret.tasks, {i \in DOMAIN ret.tasks : EligibleInList(ret.tasks, i)}, 1)

\* T001 completed, T002 pending on T001, T003 pending on T002: exactly [T002]
C6_Witness ==
    /\ ret.op = "get_available_tasks"
    /\ Len(ret.tasks) = 3
    /\ ret.tasks[1].status = "completed" /\ ret.tasks[1].depends_on = <<>>
    /\ ret.tasks[2].status = "pending" /\ ret.tasks[2].depends_on = <<"T001">>
    /\ ret.tasks[3].status = "pending" /\ ret.tasks[3].depends_on = <<"T002">>
    /\ ret.result = <<ret.tasks[2]>>

\* C7: available_tasks() takes a dependency id outside the task list as
\* satisfied: every pending task whose in-list dependencies are all completed
\* is returned
C7_ExternalDependencyIsSatisfied ==
    ret.op = "get_available_tasks" =>
        \A i \in DOMAIN ret.tasks :
            EligibleInList(ret.tasks, i) => ret.tasks[i] \in Elems(ret.result)

\* C8: the next available task is the first element of available_tasks() on
\* the same list, or none when that is empty: declaration order decides
C8_NextIsHeadOfAvailable ==
    ret.op = "get_next_available_task" =>
        ret.result = IF get_available_tasks(ret.tasks) = <<>> THEN None
                     ELSE Head(get_available_tasks(ret.tasks)).id

\* a P3 task declared before an available P1 task is the one returned
C8_Witness ==
    /\ ret.op = "get_next_available_task"
    /\ Len(ret.tasks) = 3
    /\ ret.tasks[1].priority = "P3"
    /\ ret.tasks[3].priority = "P1"
    /\ ret.tasks[3] \in Elems(get_available_tasks(ret.tasks))
    /\ ret.result = ret.tasks[1].id

\* C9: total = number of tasks = pending + in_progress + completed + skipped,
\* each counter counts the tasks of its status, the percentage is
\* (completed + skipped) / total * 100 for total > 0 and 0 for total = 0, and an
\* empty list gives available_tasks() = [] and percentage 0 without an error
C9_ProgressCountersAndPercentage ==
    /\ ret.op = "calculate_task_progress" =>
        /\ ret.result.total = Len(ret.tasks)
        /\ ret.result.total = ret.result.pending + ret.result.in_progress
                                + ret.result.completed + ret.result.skipped
        /\ \A st \in TaskStatuses :
                ret.result[st] = Cardinality({i \in DOMAIN ret.tasks : ret.tasks[i].status = st})
        /\ ret.result.total > 0 =>
                ret.percentage.num * ret.result.total =
                    (ret.result.completed + ret.result.skipped) * 100 * ret.percentage.den
        /\ ret.result.total = 0 => (ret.percentage.num = 0 /\ error = NoError)
    /\ (ret.op = "get_available_tasks" /\ ret.tasks = <<>>) =>
            (ret.result = <<>> /\ error = NoError)

\* three tasks, one completed and one skipped: 200/3 percent
C9_Witness ==
    /\ ret.op = "calculate_task_progress"
    /\ ret.result.total = 3
    /\ ret.result.completed = 1
    /\ ret.result.skipped = 1
    /\ ret.percentage = [num |-> 200, den |-> 3]

----------------------------------------------------------------------------
(* SpecMutate: one feature created with tasks, then task statuses assigned, *)
(* the feature saved and loaded                                             *)

MutMaxTasks == 2

\* depends_on lists of at most one id, over the ids of n tasks and ExternalId
MutDepChoices(n) ==
    {d \in DepChoices : Len(d) <= 1 /\ Elems(d) \subseteq (Elems(SubSeq(TaskIdPool, 1, n)) \cup {ExternalId})}

CreateWithTasks ==
    /\ feature = NoFeature
    /\ \E n \in 0..MutMaxTasks :
        \E st \in [1..n -> TaskStatuses], deps \in [1..n -> MutDepChoices(n)] :
            Construct(FieldsOf(TaskList(n, st, deps, [i \in 1..n |-> DefaultPriority])))
    /\ UNCHANGED <<file, prevFile, fields, restVars>>

AssignStatus ==
    /\ \E i \in 1..MutMaxTasks, st \in TaskStatuses : SetTaskStatus(i, st)
    /\ UNCHANGED <<file, prevFile, fields, restVars>>

SaveMutated ==
    /\ SaveToFile
    /\ UNCHANGED <<prevFile, fields, storeVars>>

NextMutate == CreateWithTasks \/ AssignStatus \/ SaveMutated \/ Load

SpecMutate == Init /\ [][NextMutate]_vars

\* every in_progress task of the list has its same-feature dependencies completed
DependencyInvariant(tasks) ==
    \A i \in DOMAIN tasks : ~OffendingTask(tasks, i)

\* C4: after task-status changes followed by a save, neither the persisted
\* state file nor the feature object it was written from has an in_progress
\* task with a same-feature dependency that is not completed
C4_InvariantEnforcedAtMutation ==
    file.exists =>
        /\ DependencyInvariant(Get(Persisted(file), "tasks", <<>>))
        /\ (feature # NoFeature /\ file.doc = yaml_text(feature)) =>
                DependencyInvariant(feature.tasks)

----------------------------------------------------------------------------
(* projspec/models.py and projspec/state.py: SpecState and its store       *)

SpecId == "a1b2c3d4"

SpecRequired == {"spec_id", "name", "created_at", "branch", "worktree_path"}

\* SpecPhase
SpecPhases == {"new", "spec", "plan", "tasks", "implement", "review"}

\* the fields of SpecState
SpecFields == {"spec_id", "name", "phase", "created_at", "branch", "worktree_path", "tasks"}

\* the texts of the model that match ^[a-f0-9]{8}$, the pattern of spec_id
SpecIdTexts == {"a1b2c3d4", "0000beef", "cafe0001", "ffff0000"}

\* ^spec/[a-f0-9]{8}-[a-z0-9-]+$, the pattern of branch, on a text given by
\* its pieces
matches_branch(text) ==
    /\ Len(text) >= 4
    /\ text[1] = "spec/"
    /\ text[2] \in SpecIdTexts
    /\ text[3] = "-"

\* ^worktrees/spec-[a-f0-9]{8}-[a-z0-9-]+$, the pattern of worktree_path
matches_worktree_path(text) ==
    /\ Len(text) >= 4
    /\ text[1] = "worktrees/spec-"
    /\ text[2] \in SpecIdTexts
    /\ text[3] = "-"

\* pydantic's check of one value against its field of SpecState: a key that
\* is no field is ignored; None and an int are no str, no datetime and no
\* list; a text is a member of the Enum or matches the pattern of the field,
\* or it does not
spec_field_accepts(e) ==
    IF e.key \notin SpecFields THEN TRUE
    ELSE IF ~HasText(e) THEN FALSE
    ELSE IF e.key = "spec_id" THEN e.val \in SpecIdTexts
    ELSE IF e.key = "phase" THEN e.val \in SpecPhases
    ELSE IF e.key = "branch" THEN matches_branch(e.val)
    ELSE IF e.key = "worktree_path" THEN matches_worktree_path(e.val)
    ELSE TRUE

SpecInvalid(data) == {data[i].key : i \in {j \in DOMAIN data : ~spec_field_accepts(data[j])}}

\* TaskState(id=id, name=name, status=status, depends_on=depends_on): the
\* other fields at their defaults.  An id is any str.
TaskState(id, name, status, depends_on) ==
    [id |-> id, name |-> name, description |-> <<>>, status |-> status,
     depends_on |-> depends_on, context_files |-> <<>>, summary |-> PyNone]

TaskStateFields ==
    {"id", "name", "description", "status", "depends_on", "context_files", "summary"}

\* a list of str
is_str_list(v) == is_list(v) /\ \A k \in DOMAIN v.list : is_str(v.list[k])

\* pydantic's check of one value of a mapping against its field of TaskState
task_state_field_accepts(e) ==
    IF e.key \notin TaskStateFields THEN TRUE
    ELSE IF e.key \in {"id", "name", "description"} THEN is_str(e.val)
    ELSE IF e.key = "status" THEN is_word(e.val) /\ e.val.str[1] \in TaskStatuses
    ELSE IF e.key \in {"depends_on", "context_files"} THEN is_str_list(e.val)
    ELSE is_none(e.val) \/ is_str(e.val)

\* TaskState(**v) raises nothing
task_state_accepts(v) ==
    /\ is_dict(v)
    /\ {"id", "name"} \subseteq Keys(v.dict)
    /\ \A k \in DOMAIN v.dict : task_state_field_accepts(v.dict[k])

\* the TaskState validated from a mapping that task_state_accepts
task_state_validate(m) ==
    [id |-> Get(m, "id", PyNone).str,
     name |-> Get(m, "name", PyNone).str,
     description |-> Get(m, "description", PyStr(<<>>)).str,
     status |-> Get(m, "status", PyStr(<<"pending">>)).str[1],
     depends_on |-> [k \in DOMAIN Get(m, "depends_on", PyList(<<>>)).list |->
                        Get(m, "depends_on", PyList(<<>>)).list[k].str],
     context_files |-> [k \in DOMAIN Get(m, "context_files", PyList(<<>>)).list |->
                            Get(m, "context_files", PyList(<<>>)).list[k].str],
     summary |-> Get(m, "summary", PyNone)]

\* a TaskState as model_dump(mode="json") writes it
task_state_dump(t) ==
    <<Entry("id", PyStr(t.id)),
      Entry("name", PyStr(t.name)),
      Entry("description", PyStr(t.description)),
      Entry("status", PyStr(<<t.status>>)),
      Entry("depends_on", PyList([k \in DOMAIN t.depends_on |-> PyStr(t.depends_on[k])])),
      Entry("context_files",
            PyList([k \in DOMAIN t.context_files |-> PyStr(t.context_files[k])])),
      Entry("summary", t.summary)>>

as_task_states(k, v) ==
    IF is_list(v) /\ \A i \in DOMAIN v.list : task_state_accepts(v.list[i])
    THEN Entry(k, [i \in DOMAIN v.list |-> task_state_validate(v.list[i].dict)])
    ELSE Rejected(k)

\* pydantic's conversion of the values yaml.safe_load yields to the types of
\* the fields of SpecState; a value that does not convert is rejected
spec_coerce(data) ==
    [i \in DOMAIN data |->
        IF data[i].key \in {"spec_id", "name", "phase"}
        THEN as_word(data[i].key, data[i].val)
        ELSE IF data[i].key \in {"branch", "worktree_path"}
        THEN as_text(data[i].key, data[i].val)
        ELSE IF data[i].key = "created_at"
        THEN as_datetime(data[i].key, data[i].val)
        ELSE IF data[i].key = "tasks"
        THEN as_task_states(data[i].key, data[i].val)
        ELSE data[i]]

\* SpecState(**data): the required fields, the types of the values, the
\* defaults of phase and tasks
spec_state_validate(data) ==
    IF SpecRequired \ Keys(data) # {} \/ SpecInvalid(data) # {}
    THEN [ok |-> FALSE, errors |-> FieldErrors(SpecRequired \ Keys(data), SpecInvalid(data))]
    ELSE [ok |-> TRUE,
          value |-> [spec_id |-> Get(data, "spec_id", None),
                     name |-> Get(data, "name", None),
                     phase |-> Get(data, "phase", DefaultPhase),
                     created_at |-> Get(data, "created_at", 0),
                     branch |-> Get(data, "branch", <<>>),
                     worktree_path |-> Get(data, "worktree_path", <<>>),
                     tasks |-> Get(data, "tasks", <<>>)]]

\* state.model_dump(mode="json"): the fields in declaration order, the Enum
\* members as their values, created_at as its ISO text
spec_model_dump(st) ==
    <<Entry("spec_id", PyStr(<<st.spec_id>>)),
      Entry("name", PyStr(<<st.name>>)),
      Entry("phase", PyStr(<<st.phase>>)),
      Entry("created_at", PyStr(isoformat(st.created_at))),
      Entry("branch", PyStr(st.branch)),
      Entry("worktree_path", PyStr(st.worktree_path)),
      Entry("tasks", PyList([k \in DOMAIN st.tasks |-> PyDict(task_state_dump(st.tasks[k]))]))>>

\* yaml_content = yaml.safe_dump(state_dict, default_flow_style=False,
\* sort_keys=False): on the values of a JSON-mode dump the safe dumper writes
\* what yaml.dump writes
yaml_content(st) == yaml_dump(spec_model_dump(st))

StateLoadError(what) == [kind |-> "StateLoadError", errors |-> <<what>>]

\* load_spec_state(state_file): the SpecState, or the exception raised: a
\* StateLoadError, or the UnicodeDecodeError that no except clause catches
load_spec_state(f) ==
    IF ~f.exists THEN [ok |-> FALSE, error |-> StateLoadError("File not found")]
    ELSE IF undecodable(f)
    THEN [ok |-> FALSE, error |-> [kind |-> "UnicodeDecodeError", errors |-> <<>>]]
    ELSE IF yaml_malformed(f) THEN [ok |-> FALSE, error |-> StateLoadError("YAML parsing error")]
    ELSE IF safe_load(f) = YamlNone THEN [ok |-> FALSE, error |-> StateLoadError("File is empty")]
    ELSE IF ~is_mapping(safe_load(f))
    THEN [ok |-> FALSE, error |-> StateLoadError("Expected YAML mapping")]
    ELSE IF ~spec_state_validate(spec_coerce(safe_load(f))).ok
    THEN [ok |-> FALSE, error |-> StateLoadError("Validation error(s)")]
    ELSE [ok |-> TRUE, value |-> spec_state_validate(spec_coerce(safe_load(f))).value]

LoadSpecState ==
    LET r == load_spec_state(file)
    IN  /\ feature' = IF r.ok THEN r.value ELSE feature
        /\ error' = IF r.ok THEN NoError ELSE r.error
        /\ ret' = NoRet

----------------------------------------------------------------------------
(* SpecCrash: a save that runs step by step and may be killed between two  *)
(* steps, followed by a load of the same path by a new process.  The state *)
(* object is a FeatureState (save_to_file / load_from_file) or a SpecState *)
(* (save_spec_state / load_spec_state), as the constructor arguments say.  *)

FeatureKwargs == <<Entry("id", FeatureId), Entry("name", FeatureName)>>

\* a feature with a description of more than one piece of text
DescribedKwargs ==
    FeatureKwargs \o <<Entry("description", <<"Sign in with a password", " or with a passkey">>)>>

\* created_at is a datetime with microseconds
SpecKwargs ==
    <<Entry("spec_id", SpecId), Entry("name", FeatureName),
      Entry("created_at", 1),
      Entry("branch", <<"spec/", SpecId, "-", "user", "-auth">>),
      Entry("worktree_path", <<"worktrees/spec-", SpecId, "-", "user", "-auth">>)>>

CrashPhases == {"new", "spec", "plan"}

IsSpecState(obj) == "spec_id" \in DOMAIN obj

\* proper, non-empty beginnings of the words the saved documents hold
ShortWords(word) ==
    CASE word = "user-auth" -> {"user"}
      [] word = "a1b2c3d4" -> {"a1b2"}
      [] word = "active" -> {"act"}
      [] word = "new" -> {"ne"}
      [] word = "spec" -> {"sp"}
      [] word = "plan" -> {"pl"}
      [] word = "tasks" -> {"ta"}
      [] word = "implement" -> {"im"}
      [] word = "review" -> {"re"}
      [] word = "complete" -> {"co"}
      [] word = "completed" -> {"co"}
      [] word = "pending" -> {"pen"}
      [] word = "null" -> {"nu"}
      [] word = "id" -> {"i"}
      [] word \in {"T001", "T002", "T003"} -> {"T0"}
      [] OTHER -> {}

\* proper, non-empty beginnings of a sequence
ShortSeqs(seq) == {SubSeq(seq, 1, j) : j \in 1..(Len(seq) - 1)}

\* proper, non-empty beginnings of a text
ShortTexts(text) ==
    IF Len(text) = 1 THEN {<<part>> : part \in ShortWords(text[1])} ELSE ShortSeqs(text)

\* a cut inside the text of the node may leave text that yaml.safe_load does
\* not parse: a quoted scalar without its closing quote, "[" without "]", a
\* later key of a nested mapping without its colon
RECURSIVE Tears(_)
Tears(n) ==
    IF "plain" \in DOMAIN n THEN FALSE
    ELSE IF "quoted" \in DOMAIN n THEN TRUE
    ELSE IF "seq" \in DOMAIN n THEN n.seq = <<>> \/ \E k \in DOMAIN n.seq : Tears(n.seq[k])
    ELSE Len(n.map) > 1 \/ \E k \in DOMAIN n.map : Tears(n.map[k].val)

\* the nodes the text of node n, cut short, parses as: nothing of it is the
\* plain scalar of no character (None); of a plain scalar a shorter one; of a
\* sequence whole items, then what is there of the next item; of a mapping
\* (an item of a sequence) the first letters of its first key (a plain
\* scalar), or whole lines, then the next key with what is there of its value
RECURSIVE CutNode(_)
CutNode(n) ==
    IF "plain" \in DOMAIN n
    THEN {Plain(<<>>)} \cup {Plain(part) : part \in ShortTexts(n.plain)}
    ELSE IF "quoted" \in DOMAIN n
    THEN {Plain(<<>>)}
    ELSE IF "seq" \in DOMAIN n
    THEN {Plain(<<>>)} \cup
         {BlockSeq(SubSeq(n.seq, 1, j)) : j \in 1..(Len(n.seq) - 1)} \cup
         UNION {{BlockSeq(SubSeq(n.seq, 1, j) \o <<part>>) : part \in CutNode(n.seq[j + 1])} :
                    j \in 0..(Len(n.seq) - 1)}
    ELSE {Plain(<<>>)} \cup
         {Plain(<<part>>) : part \in ShortWords(n.map[1].key)} \cup
         {BlockMap(SubSeq(n.map, 1, k)) : k \in 1..(Len(n.map) - 1)} \cup
         UNION {{BlockMap(SubSeq(n.map, 1, k) \o <<Entry(n.map[k + 1].key, part)>>) :
                    part \in CutNode(n.map[k + 1].val)} : k \in 0..(Len(n.map) - 1)}

\* what the line of entry k + 1 of doc, cut short, may leave in a file that
\* holds k whole lines before it: malformed text (not as the first line of a
\* plain value, whose beginnings all load), one plain scalar (the beginning
\* of the first key), the key with what is there of its value
CutLines(doc, k) ==
    (IF k > 0 \/ Tears(doc[k + 1].val) THEN {TornLine} ELSE {}) \cup
    (IF k = 0 THEN {BareScalar} ELSE {}) \cup
    {Entry(doc[k + 1].key, part) : part \in CutNode(doc[k + 1].val)}

\* what a write of doc that was cut short may have put into a file: a proper
\* prefix of the lines, possibly followed by what is there of the next line
PartialWrites(doc) ==
    {SubSeq(doc, 1, k) : k \in 0..(Len(doc) - 1)} \cup
    UNION {{SubSeq(doc, 1, k) \o <<line>> : line \in CutLines(doc, k)} :
                k \in 0..(Len(doc) - 1)}

InitCrash ==
    /\ feature = NoFeature
    /\ error = NoError
    /\ file = NoFile
    /\ prevFile = NoFile
    /\ ret = NoRet
    /\ fields \in {FeatureKwargs, DescribedKwargs, SpecKwargs}
    /\ IdleStore

CreateObject ==
    /\ pc = "idle"
    /\ feature = NoFeature
    /\ LET r == IF "spec_id" \in Keys(fields) THEN spec_state_validate(fields)
                ELSE model_validate(fields)
       IN  feature' = r.value
    /\ UNCHANGED <<error, file, prevFile, ret, fields, restVars>>

AssignCrashPhase ==
    /\ pc = "idle"
    /\ \E p \in CrashPhases : SetPhase(p)
    /\ UNCHANGED <<file, prevFile, fields, restVars>>

\* save_to_file, lines 322-328: mkdir of the parent, updated = now, the dict
SaveFileBegin ==
    /\ pc = "idle"
    /\ feature # NoFeature /\ ~IsSpecState(feature)
    /\ dirExists' = TRUE
    /\ feature' = [feature EXCEPT !.updated = clock]
    /\ pending' = yaml_text(feature')
    /\ oldDoc' = file
    /\ pc' = "f_begin"
    /\ UNCHANGED <<error, file, prevFile, ret, fields, disk, tmpName, envVars>>

\* save_to_file, line 330: path.open("w") creates or truncates the state file
SaveFileOpen ==
    /\ pc = "f_begin"
    /\ file' = File(<<>>)
    /\ pc' = "f_open"
    /\ UNCHANGED <<feature, error, prevFile, ret, fields, disk, pending, tmpName, oldDoc, envVars, dirExists>>

\* save_to_file, lines 331-337: yaml.dump streams into the open file; a part
\* of the document reaches the file before the rest, and at the end of the
\* document the emitter flushes the stream: the whole document is in the
\* file while the with block has not been left
SaveFileDump ==
    /\ pc = "f_open"
    /\ file.doc = <<>>
    /\ \E part \in PartialWrites(pending) \cup {pending} : file' = File(part)
    /\ UNCHANGED <<feature, error, prevFile, ret, fields, restVars>>

\* save_to_file: leaving the with block flushes the rest and closes the file
SaveFileClose ==
    /\ pc = "f_open"
    /\ file' = File(pending)
    /\ prevFile' = oldDoc
    /\ pending' = <<>>
    /\ pc' = "idle"
    /\ UNCHANGED <<feature, error, ret, fields, disk, tmpName, oldDoc, envVars, dirExists>>

\* save_spec_state, lines 256-269: the directory exists; the state is serialized
StoreBegin ==
    /\ pc = "idle"
    /\ feature # NoFeature /\ IsSpecState(feature)
    /\ pending' = yaml_content(feature)
    /\ oldDoc' = file
    /\ pc' = "s_begin"
    /\ UNCHANGED <<feature, error, file, prevFile, ret, fields, disk, tmpName, envVars, dirExists>>

\* save_spec_state, lines 277-281: mkstemp creates a new, empty file under a
\* name that is not in use, in the directory of state.yaml
StoreMkstemp ==
    /\ pc = "s_begin"
    /\ \E n \in TmpNames :
        /\ ~disk[n].exists
        /\ tmpName' = n
        /\ disk' = [disk EXCEPT ![n] = File(<<>>)]
    /\ pc' = "s_tmp"
    /\ UNCHANGED <<feature, error, file, prevFile, ret, fields, pending, oldDoc, envVars, dirExists>>

\* save_spec_state, lines 286-287: write and flush hand the text to the file;
\* a part of it is in the temporary file before the rest
StoreWrite ==
    /\ pc = "s_tmp"
    /\ disk[tmpName].doc = <<>>
    /\ \E part \in PartialWrites(pending) :
            disk' = [disk EXCEPT ![tmpName] = File(part)]
    /\ UNCHANGED <<feature, error, file, prevFile, ret, fields, pc, pending, tmpName, oldDoc, envVars, dirExists>>

\* save_spec_state, lines 287-288: flush and fsync return with the whole text
\* in the temporary file; leaving the with block closes it
StoreFsync ==
    /\ pc = "s_tmp"
    /\ disk' = [disk EXCEPT ![tmpName] = File(pending)]
    /\ pc' = "s_synced"
    /\ UNCHANGED <<feature, error, file, prevFile, ret, fields, pending, tmpName, oldDoc, envVars, dirExists>>

\* save_spec_state, lines 291-292: os.replace moves the temporary file onto
\* state.yaml in one step; the function returns
StoreReplace ==
    /\ pc = "s_synced"
    /\ file' = disk[tmpName]
    /\ disk' = [disk EXCEPT ![tmpName] = NoFile]
    /\ prevFile' = oldDoc
    /\ tmpName' = NoTmp
    /\ pending' = <<>>
    /\ pc' = "idle"
    /\ UNCHANGED <<feature, error, ret, fields, oldDoc, envVars, dirExists>>

Saving == pc \in {"f_begin", "f_open", "s_begin", "s_tmp", "s_synced"}

\* the process is killed inside a save: its memory is gone, no finally block
\* runs, the files stay as they are
Crash ==
    /\ Saving
    /\ pc' = "crashed"
    /\ feature' = NoFeature
    /\ pending' = <<>>
    /\ tmpName' = NoTmp
    /\ UNCHANGED <<error, file, prevFile, ret, fields, disk, oldDoc, envVars, dirExists>>

\* a new process loads the path the killed save was writing
Recover ==
    /\ pc = "crashed"
    /\ IF "spec_id" \in Keys(fields) THEN LoadSpecState ELSE LoadFromFile
    /\ pc' = "recovered"
    /\ UNCHANGED <<file, prevFile, fields, disk, pending, tmpName, oldDoc, envVars, dirExists>>

NextCrash ==
    \/ CreateObject \/ AssignCrashPhase
    \/ SaveFileBegin \/ SaveFileOpen \/ SaveFileDump \/ SaveFileClose
    \/ StoreBegin \/ StoreMkstemp \/ StoreWrite \/ StoreFsync \/ StoreReplace
    \/ Crash \/ Recover

SpecCrash == InitCrash /\ [][NextCrash]_vars

\* the document a state object is saved as
DumpOf(obj) == IF IsSpecState(obj) THEN yaml_content(obj) ELSE yaml_text(obj)

NotFoundRaised ==
    \/ error.kind = "FileNotFoundError"
    \/ error = StateLoadError("File not found")

\* C10: after a save was interrupted before it completed, a load of the same
\* path returns the previous valid state, or NotFound when there was none
C10_InterruptedSaveLoadsOldOrNotFound ==
    pc = "recovered" =>
        IF oldDoc.exists
        THEN error = NoError /\ feature # NoFeature /\ DumpOf(feature) = oldDoc.doc
        ELSE NotFoundRaised

\* the same statement for save_spec_state / load_spec_state alone
StoreInterruptedSaveLoadsOldOrNotFound ==
    (pc = "recovered" /\ "spec_id" \in Keys(fields)) =>
        IF oldDoc.exists
        THEN error = NoError /\ feature # NoFeature /\ DumpOf(feature) = oldDoc.doc
        ELSE NotFoundRaised

----------------------------------------------------------------------------
(* SpecStore: two processes that call save_spec_state on the same spec and *)
(* one that calls load_spec_state on it, each running step by step and     *)
(* interleaved with the others.  A call of the operating system made by    *)
(* save_spec_state may fail with an OSError.                               *)

\* the state the spec directory holds before the calls, and the state each
\* writer saves
StoredState == spec_state_validate(SpecKwargs \o <<Entry("phase", "new")>>).value

StateOf(i) ==
    spec_state_validate(SpecKwargs \o <<Entry("phase", <<"spec", "plan">>[i])>>).value

\* one call made on a file of the spec directory
Call(op, path) == [op |-> op, path |-> path]

Ops(calls) == [k \in DOMAIN calls |-> calls[k].op]

InitStore ==
    /\ feature = NoFeature
    /\ error = NoError
    /\ prevFile = NoFile
    /\ ret = NoRet
    /\ fields = <<>>
    /\ pc = "idle"
    /\ disk = [n \in TmpNames |-> NoFile]
    /\ pending = <<>>
    /\ tmpName = NoTmp
    /\ dirExists \in BOOLEAN
    /\ file \in IF dirExists THEN {NoFile, File(yaml_content(StoredState))} ELSE {NoFile}
    /\ oldDoc = file
    /\ w = [i \in Writers |-> IdleWriter @@ [calls |-> <<>>]]
    /\ rd = IdleReader
    /\ log = <<>>
    /\ hist = <<>>
    /\ clock = 0

otherVars == <<feature, error, prevFile, ret, fields, pc, pending, tmpName, oldDoc, hist, clock>>

\* save_spec_state, lines 256-269: FileNotFoundError when the spec directory
\* is missing; otherwise the state is serialized
WriterBegin(i) ==
    /\ w[i].pc = "idle"
    /\ w' = [w EXCEPT ![i] =
                IF ~dirExists
                THEN [@ EXCEPT !.pc = "done", !.raised = "FileNotFoundError"]
                ELSE [@ EXCEPT !.pc = "serialized",
                               !.yaml_content = yaml_content(StateOf(i))]]
    /\ UNCHANGED <<file, disk, rd, log, dirExists, otherVars>>

\* a save that opens one fixed temporary name for writing
WriterMkstemp_FixedName(i) ==
    /\ w[i].pc = "serialized"
    /\ disk' = [disk EXCEPT !["state_a.yaml.tmp"] = File(<<>>)]
    /\ w' = [w EXCEPT ![i] = [@ EXCEPT !.pc = "created", !.temp_path = "state_a.yaml.tmp",
                                        !.calls = Append(@, Call("mkstemp", "state_a.yaml.tmp"))]]
    /\ UNCHANGED <<file, rd, log, dirExists, otherVars>>

\* lines 277-281: mkstemp(dir=spec_dir) creates an empty file under a name
\* that no file of the directory carries
WriterMkstemp(i) ==
    /\ w[i].pc = "serialized"
    /\ \E n \in TmpNames :
        /\ ~disk[n].exists
        /\ disk' = [disk EXCEPT ![n] = File(<<>>)]
        /\ w' = [w EXCEPT ![i] = [@ EXCEPT !.pc = "created", !.temp_path = n,
                                            !.calls = Append(@, Call("mkstemp", n))]]
    /\ UNCHANGED <<file, rd, log, dirExists, otherVars>>

\* line 286: temp_file.write(yaml_content); a part of the text may reach the
\* file before the flush
WriterWrite(i) ==
    /\ w[i].pc = "created"
    /\ \E part \in PartialWrites(w[i].yaml_content) :
            disk' = [disk EXCEPT ![w[i].temp_path] = File(part)]
    /\ w' = [w EXCEPT ![i] = [@ EXCEPT !.pc = "written",
                                        !.calls = Append(@, Call("write", w[i].temp_path))]]
    /\ UNCHANGED <<file, rd, log, dirExists, otherVars>>

\* a flush that returns while a part of the text is still on its way
WriterFsync_Lazy(i) ==
    /\ w[i].pc = "written"
    /\ w' = [w EXCEPT ![i] = [@ EXCEPT !.pc = "synced",
                                        !.calls = @ \o <<Call("flush", w[i].temp_path),
                                                         Call("fsync", w[i].temp_path)>>]]
    /\ UNCHANGED <<file, disk, rd, log, dirExists, otherVars>>

\* lines 287-288: flush and os.fsync return with the whole text in the
\* temporary file; leaving the with block closes it
WriterFsync(i) ==
    /\ w[i].pc = "written"
    /\ disk' = [disk EXCEPT ![w[i].temp_path] = File(w[i].yaml_content)]
    /\ w' = [w EXCEPT ![i] = [@ EXCEPT !.pc = "synced",
                                        !.calls = @ \o <<Call("flush", w[i].temp_path),
                                                         Call("fsync", w[i].temp_path)>>]]
    /\ UNCHANGED <<file, rd, log, dirExists, otherVars>>

\* a save that renames its temporary file as soon as the text was handed to it
WriterReplace_BeforeSync(i) ==
    /\ w[i].pc \in {"written", "synced"}
    /\ file' = disk[w[i].temp_path]
    /\ disk' = [disk EXCEPT ![w[i].temp_path] = NoFile]
    /\ log' = Append(log, i)
    /\ w' = [w EXCEPT ![i] = [@ EXCEPT !.pc = "done", !.temp_path = NoTmp,
                                        !.calls = Append(@, Call("replace", w[i].temp_path))]]
    /\ UNCHANGED <<rd, dirExists, otherVars>>

\* lines 291-292: os.replace(temp_path, state_file) binds the name state.yaml
\* to the temporary file in one step; temp_path = None; the call returns
WriterReplace(i) ==
    /\ w[i].pc = "synced"
    /\ file' = disk[w[i].temp_path]
    /\ disk' = [disk EXCEPT ![w[i].temp_path] = NoFile]
    /\ log' = Append(log, i)
    /\ w' = [w EXCEPT ![i] = [@ EXCEPT !.pc = "done", !.temp_path = NoTmp,
                                        !.calls = Append(@, Call("replace", w[i].temp_path))]]
    /\ UNCHANGED <<rd, dirExists, otherVars>>

\* lines 277-281: tempfile.mkstemp raises an OSError: no temporary file was
\* created, temp_fd and temp_path are None, the finally block has nothing to
\* do and the OSError propagates to the caller
WriterMkstempFault(i) ==
    /\ w[i].pc = "serialized"
    /\ w' = [w EXCEPT ![i] = [@ EXCEPT !.pc = "done", !.raised = "OSError"]]
    /\ UNCHANGED <<file, disk, rd, log, dirExists, otherVars>>

\* write, flush, os.fsync or os.replace raises an OSError: control passes to
\* the finally block with temp_path still set.
\*   line 286, write raises: the temporary file is as mkstemp created it;
\*   line 287, flush raises: leaving the with block closes the file, which
\*     hands the buffered text to it once more, so the file holds the whole
\*     text, or what had reached it when this fails as well;
\*   line 288, os.fsync raises: flush has returned, the file holds the whole
\*     text;
\*   line 291, os.replace raises: the file is as the sync left it
WriterFault(i) ==
    /\ \/ /\ w[i].pc = "created"
          /\ w' = [w EXCEPT ![i] = [@ EXCEPT !.pc = "cleanup", !.raised = "OSError"]]
          /\ UNCHANGED disk
       \/ /\ w[i].pc = "written"
          /\ w' = [w EXCEPT ![i] = [@ EXCEPT !.pc = "cleanup", !.raised = "OSError"]]
          /\ \E left \in {disk[w[i].temp_path], File(w[i].yaml_content)} :
                disk' = [disk EXCEPT ![w[i].temp_path] = left]
       \/ /\ w[i].pc = "written"
          /\ w' = [w EXCEPT ![i] = [@ EXCEPT !.pc = "cleanup", !.raised = "OSError",
                                              !.calls = Append(@, Call("flush", w[i].temp_path))]]
          /\ disk' = [disk EXCEPT ![w[i].temp_path] = File(w[i].yaml_content)]
       \/ /\ w[i].pc = "synced"
          /\ w' = [w EXCEPT ![i] = [@ EXCEPT !.pc = "cleanup", !.raised = "OSError"]]
          /\ UNCHANGED disk
    /\ UNCHANGED <<file, rd, log, dirExists, otherVars>>

\* lines 294-305: the finally block unlinks the temporary file, then the
\* OSError propagates to the caller
WriterUnlink(i) ==
    /\ w[i].pc = "cleanup"
    /\ disk' = [disk EXCEPT ![w[i].temp_path] = NoFile]
    /\ w' = [w EXCEPT ![i] = [@ EXCEPT !.pc = "done",
                                        !.calls = Append(@, Call("unlink", w[i].temp_path))]]
    /\ UNCHANGED <<file, rd, log, dirExists, otherVars>>

\* lines 301-305: os.unlink raises an OSError of its own, which the except
\* clause swallows: the temporary file stays in the spec directory, and the
\* OSError of the failed step propagates to the caller
WriterUnlinkFault(i) ==
    /\ w[i].pc = "cleanup"
    /\ w' = [w EXCEPT ![i] = [@ EXCEPT !.pc = "done"]]
    /\ UNCHANGED <<file, disk, rd, log, dirExists, otherVars>>

\* load_spec_state, lines 99-104: state_file.exists()
ReaderExists ==
    /\ rd.pc = "idle"
    /\ rd' = IF file.exists THEN [rd EXCEPT !.pc = "checked"]
             ELSE [rd EXCEPT !.pc = "done", !.raised = "File not found"]
    /\ UNCHANGED <<file, disk, w, log, dirExists, otherVars>>

\* line 108: open(state_file) yields the file the name state.yaml is bound to
\* at this moment; a later os.replace binds the name to another file and
\* leaves this one as it is
ReaderOpen ==
    /\ rd.pc = "checked"
    /\ rd' = [rd EXCEPT !.pc = "opened", !.data = file]
    /\ UNCHANGED <<file, disk, w, log, dirExists, otherVars>>

\* lines 109-146: yaml.safe_load of the open file, the checks on the result,
\* SpecState(**data)
ReaderParse ==
    /\ rd.pc = "opened"
    /\ LET r == load_spec_state(rd.data)
       IN  rd' = [rd EXCEPT !.pc = "done",
                            !.raised = IF r.ok THEN "none"
                                       ELSE IF r.error.kind = "StateLoadError"
                                       THEN r.error.errors[1]
                                       ELSE r.error.kind]
    /\ UNCHANGED <<file, disk, w, log, dirExists, otherVars>>

NextStore ==
    \/ \E i \in Writers :
        \/ WriterBegin(i) \/ WriterMkstemp(i) \/ WriterWrite(i) \/ WriterFsync(i)
        \/ WriterReplace(i) \/ WriterMkstempFault(i) \/ WriterFault(i)
        \/ WriterUnlink(i) \/ WriterUnlinkFault(i)
    \/ ReaderExists \/ ReaderOpen \/ ReaderParse

SpecStore == InitStore /\ [][NextStore]_vars

\* the calls of the atomic write sequence, in order
AtomicSequence == <<"mkstemp", "write", "flush", "fsync", "replace">>

\* what the calls of one save may be so far: a part of the sequence from its
\* start, or such a part without the rename, followed by the unlink
AllowedCalls ==
    {SubSeq(AtomicSequence, 1, k) : k \in 0..Len(AtomicSequence)} \cup
    {SubSeq(AtomicSequence, 1, k) \o <<"unlink">> : k \in 1..(Len(AtomicSequence) - 1)}

\* a step that changes state.yaml is the rename of a temporary file that
\* holds the whole text of the save that renames it
DestinationOnlyRenamed ==
    file' # file =>
        \E i \in Writers :
            /\ w[i].pc = "synced" /\ w'[i].pc = "done"
            /\ disk[w[i].temp_path] = File(w[i].yaml_content)
            /\ file' = disk[w[i].temp_path]
            /\ ~disk'[w[i].temp_path].exists

\* the positions of a save at which its temporary file is in the directory
HoldsTemp == {"created", "written", "synced", "cleanup"}

\* C11: every save makes its calls in the order mkstemp, write, flush, fsync,
\* replace, all of them on one temporary file of the spec directory whose name
\* no other running save uses; state.yaml changes by the rename only, after
\* the sync; the temporary file is unlinked only when the save failed, never
\* after the rename
C11_SaveFollowsAtomicSequence ==
    /\ [](\A i \in Writers :
            /\ Ops(w[i].calls) \in AllowedCalls
            /\ \A k \in DOMAIN w[i].calls :
                    w[i].calls[k].path \in TmpNames /\ w[i].calls[k].path = w[i].calls[1].path
            /\ \A j \in Writers \ {i} :
                    (w[i].pc \in HoldsTemp /\ w[j].pc \in HoldsTemp) =>
                        w[i].temp_path # w[j].temp_path
            /\ ("unlink" \in Elems(Ops(w[i].calls))) => w[i].raised = "OSError")
    /\ [][DestinationOnlyRenamed]_vars

\* one save ran the whole sequence and its text is in state.yaml, the other
\* failed after the sync and unlinked its temporary file
C11_Witness ==
    /\ Ops(w[1].calls) = AtomicSequence
    /\ file = File(yaml_content(StateOf(1)))
    /\ Ops(w[2].calls) = <<"mkstemp", "write", "flush", "fsync", "unlink">>
    /\ w[2].raised = "OSError"

\* the complete contents state.yaml has had: the stored one and the text of
\* each save that has renamed
CompleteVersions ==
    {oldDoc} \cup {File(yaml_content(StateOf(log[k]))) : k \in DOMAIN log}

\* C12: a load that runs while saves of the same spec run reads the complete
\* previous content of state.yaml or the complete content of a save (and
\* reports "File not found" only when there was no file); it never reads an
\* empty or partly written file
C12_ConcurrentLoadSeesOldOrNew ==
    /\ rd.pc = "opened" => rd.data \in CompleteVersions /\ rd.data.exists
    /\ rd.pc = "done" =>
        \/ rd.raised = "File not found" /\ ~oldDoc.exists /\ rd.data = NoFile
        \/ rd.raised = "none" /\ rd.data \in CompleteVersions /\ rd.data.exists

\* the load returned the text of writer 2 while writer 1 was in the middle
\* of its write
C12_Witness ==
    /\ rd.pc = "done" /\ rd.raised = "none"
    /\ rd.data = File(yaml_content(StateOf(2)))
    /\ oldDoc.exists
    /\ w[1].pc = "written"
    /\ disk[w[1].temp_path] # File(w[1].yaml_content)

Last(seq) == seq[Len(seq)]

\* C13: when two saves of one spec race, no step of one disturbs the other:
\* each finds a free temporary name, each temporary file holds what its own
\* save put there until that save renames or unlinks it, state.yaml holds
\* exactly the text of the save that renamed last, and no temporary file is
\* left once both returned without error: a temporary file in the directory
\* is that of a save still running or of a save that failed with an OSError
C13_RacingSavesLastWriterWins ==
    /\ \A i \in Writers :
        /\ w[i].pc = "serialized" => \E n \in TmpNames : ~disk[n].exists
        /\ w[i].pc = "created" => disk[w[i].temp_path] = File(<<>>)
        /\ w[i].pc = "written" =>
                disk[w[i].temp_path].doc \in PartialWrites(w[i].yaml_content)
        /\ w[i].pc = "synced" => disk[w[i].temp_path] = File(w[i].yaml_content)
        /\ w[i].pc = "cleanup" => disk[w[i].temp_path].exists
        /\ (w[i].pc = "done" /\ dirExists) =>
                (w[i].raised = "none" <=> i \in Elems(log))
    /\ log # <<>> => file = File(yaml_content(StateOf(Last(log))))
    /\ log = <<>> => file = oldDoc
    /\ \A n \in TmpNames :
            disk[n].exists =>
                \E i \in Writers :
                    /\ w[i].temp_path = n
                    /\ w[i].pc \in HoldsTemp \/ (w[i].pc = "done" /\ w[i].raised = "OSError")
    /\ (\A i \in Writers : w[i].pc = "done" /\ w[i].raised = "none") =>
            \A n \in TmpNames : ~disk[n].exists

\* both saves returned without error; writer 1 renamed last and state.yaml
\* holds its text
C13_Witness ==
    /\ \A i \in Writers : w[i].pc = "done" /\ w[i].raised = "none"
    /\ log = <<2, 1>>
    /\ file = File(yaml_content(StateOf(1)))
    /\ \A n \in TmpNames : ~disk[n].exists

----------------------------------------------------------------------------
(* SpecFile: one state object constructed from keyword arguments, then     *)
(* saved and loaded a few times while the clock advances.  The object is a *)
(* FeatureState (save_to_file / load_from_file) or a SpecState             *)
(* (save_spec_state / load_spec_state); the directory of the state file    *)
(* exists or not when the object is constructed.                           *)

MaxOps == 4

MaxClock == 2

\* three tasks in a chain, the last one declared with the highest priority
ChainTasks ==
    <<TaskInfo("T001", "completed", "P3", <<>>),
      TaskInfo("T002", "in_progress", DefaultPriority, <<"T001">>),
      TaskInfo("T003", "pending", "P1", <<"T002", ExternalId>>)>>

\* two tasks with every field set: a name of digits only, a description of
\* two pieces, context files, a summary that reads "null" and an empty one,
\* the times the work began and ended
DetailedTasks ==
    <<[TaskInfo("T001", "completed", "P1", <<>>) EXCEPT
            !.name = <<FeatureId>>,
            !.description = <<"Create the form", " and its route">>,
            !.context_files = <<<<"src/login.py">>, <<"src/", "routes.py">>>>,
            !.summary = PyStr(<<"null">>),
            !.started = PyDatetime(0),
            !.completed = PyDatetime(1)],
      [TaskInfo("T002", "skipped", "P3", <<"T001", ExternalId>>) EXCEPT
            !.summary = PyStr(<<>>),
            !.completed = PyDatetime(2)]>>

\* two tasks of a spec: an id of two pieces and one of digits only, a name
\* that reads "null", context files, a summary
DetailedTaskStates ==
    <<[TaskState(<<"task-", "001">>, <<"Draft the schema">>, "completed", <<>>) EXCEPT
            !.description = <<"Tables", " and their keys">>,
            !.context_files = <<<<"db/schema.sql">>>>,
            !.summary = PyStr(<<"Schema", " agreed">>)],
      TaskState(<<FeatureId>>, <<"null">>, "in_progress", <<<<"task-", "001">>>>)>>

\* keyword arguments of FeatureState: the required ones alone, with a phase,
\* with a description, a branch and a worktree path of the caller, with
\* tasks; keyword arguments of SpecState, with a phase, with tasks
FileInputs ==
    {FeatureKwargs,
     FeatureKwargs \o <<Entry("phase", "review"), Entry("worktree_status", "archived")>>,
     DescribedKwargs \o <<Entry("branch", <<"feature/login">>),
                          Entry("worktree_path", <<"worktrees/login">>)>>,
     FeatureKwargs \o <<Entry("phase", "implement"), Entry("tasks", ChainTasks)>>,
     FeatureKwargs \o <<Entry("tasks", <<TaskInfo("T001", "skipped", DefaultPriority, <<>>)>>)>>,
     FeatureKwargs \o <<Entry("phase", "complete"), Entry("tasks", DetailedTasks)>>,
     SpecKwargs,
     SpecKwargs \o <<Entry("phase", "plan")>>,
     SpecKwargs \o <<Entry("phase", "implement"), Entry("tasks", DetailedTaskStates)>>}

InitFile ==
    /\ feature = NoFeature
    /\ error = NoError
    /\ file = NoFile
    /\ prevFile = NoFile
    /\ ret = NoRet
    /\ fields \in FileInputs
    /\ pc = "idle"
    /\ disk = [n \in TmpNames |-> NoFile]
    /\ pending = <<>>
    /\ tmpName = NoTmp
    /\ oldDoc = NoFile
    /\ w = [i \in Writers |-> IdleWriter]
    /\ rd = IdleReader
    /\ log = <<>>
    /\ hist = <<>>
    /\ dirExists \in BOOLEAN
    /\ clock = 0

idleVars == <<pc, disk, pending, tmpName, oldDoc, w, rd, log>>

\* one operation on the state object as the history keeps it: the object
\* before and after, what was raised, the directory and the file afterwards
Op(op, before, after, raised, dirBefore, dirAfter, fileAfter) ==
    [op |-> op, before |-> before, after |-> after, raised |-> raised,
     dirBefore |-> dirBefore, dirAfter |-> dirAfter, fileAfter |-> fileAfter]

\* FeatureState(**fields) or SpecState(**fields)
CreateState ==
    /\ feature = NoFeature
    /\ Len(hist) < MaxOps
    /\ LET r == IF "spec_id" \in Keys(fields) THEN spec_state_validate(fields)
                ELSE model_validate(fields)
       IN  /\ feature' = r.value
           /\ hist' = Append(hist, Op("create", feature, r.value, "none",
                                      dirExists, dirExists, file))
    /\ UNCHANGED <<error, file, prevFile, ret, fields, idleVars, dirExists, clock>>

\* time passes between two operations
Tick ==
    /\ clock < MaxClock
    /\ clock' = clock + 1
    /\ UNCHANGED <<feature, error, file, prevFile, ret, fields, idleVars, hist, dirExists>>

\* feature.save_to_file(path)
SaveFeatureState ==
    /\ feature # NoFeature /\ ~IsSpecState(feature)
    /\ Len(hist) < MaxOps
    /\ SaveToFile
    /\ prevFile' = file
    /\ hist' = Append(hist, Op("save", feature, feature', "none", dirExists, dirExists', file'))
    /\ UNCHANGED <<fields, idleVars, clock>>

\* save_spec_state(spec_id, state, base_path), run to completion:
\* FileNotFoundError when the spec directory is missing; otherwise the dump of
\* the state replaces state.yaml
SaveSpecState ==
    /\ feature # NoFeature /\ IsSpecState(feature)
    /\ Len(hist) < MaxOps
    /\ IF ~dirExists
       THEN /\ error' = [kind |-> "FileNotFoundError", errors |-> <<>>]
            /\ UNCHANGED <<file, prevFile>>
       ELSE /\ error' = NoError
            /\ file' = File(yaml_content(feature))
            /\ prevFile' = file
    /\ ret' = NoRet
    /\ hist' = Append(hist, Op("save", feature, feature, error'.kind, dirExists, dirExists, file'))
    /\ UNCHANGED <<feature, fields, idleVars, dirExists, clock>>

\* FeatureState.load_from_file(path) or load_spec_state(state_file)
LoadState ==
    /\ Len(hist) < MaxOps
    /\ IF "spec_id" \in Keys(fields) THEN LoadSpecState ELSE LoadFromFile
    /\ hist' = Append(hist, Op("load", feature, feature', error'.kind, dirExists, dirExists, file))
    /\ UNCHANGED <<file, prevFile, fields, idleVars, dirExists, clock>>

NextFile == CreateState \/ Tick \/ SaveFeatureState \/ SaveSpecState \/ LoadState

SpecFile == InitFile /\ [][NextFile]_vars

Saves == {k \in DOMAIN hist : hist[k].op = "save"}

\* C14: a save whose target directory does not exist raises FileNotFoundError
\* and creates neither the directory nor a file
C14_SaveNeverCreatesDirectory ==
    \A k \in Saves :
        ~hist[k].dirBefore =>
            /\ hist[k].raised = "FileNotFoundError"
            /\ ~hist[k].dirAfter
            /\ ~hist[k].fileAfter.exists

\* whether a state file holds an updated time, and the time it holds
HasUpdated(f) == f.exists /\ Keys(f.doc) \cap {"updated", "updated_at"} # {}

PersistedUpdated(f) ==
    IF "updated" \in Keys(f.doc) THEN Get(Persisted(f), "updated", 0)
    ELSE datetime_of(Get(safe_load(f), "updated_at", PyStr(isoformat(0))))

\* C15: from one successful save of a state object to the next the updated
\* time in the state file strictly increases, and a save that raised leaves
\* the state file as it was
C15_PersistedUpdatedStrictlyIncreases ==
    /\ \A k \in Saves, l \in Saves :
            (k < l /\ hist[k].raised = "none" /\ hist[l].raised = "none") =>
                /\ HasUpdated(hist[k].fileAfter) /\ HasUpdated(hist[l].fileAfter)
                /\ PersistedUpdated(hist[k].fileAfter) < PersistedUpdated(hist[l].fileAfter)
    /\ \A k \in Saves :
            (k > 1 /\ hist[k].raised # "none") => hist[k].fileAfter = hist[k - 1].fileAfter

\* an object without its updated field
ExceptUpdated(obj) == [k \in DOMAIN obj \ {"updated"} |-> obj[k]]

\* the positions of the history at which a save, a load and a save follow
\* each other and none of them raised
RoundTrips ==
    {k \in DOMAIN hist :
        /\ k + 2 \in DOMAIN hist
        /\ hist[k].op = "save" /\ hist[k + 1].op = "load" /\ hist[k + 2].op = "save"
        /\ \A j \in k..(k + 2) : hist[j].raised = "none"}

\* the positions of the history at which a save that raised nothing is
\* followed by a load
SavedThenLoaded ==
    {k \in DOMAIN hist :
        /\ k + 1 \in DOMAIN hist
        /\ hist[k].op = "save" /\ hist[k].raised = "none" /\ hist[k + 1].op = "load"}

\* C16: saving a valid state object f, loading the file and saving the loaded
\* object yields an object equal to f in every field except updated: the
\* load of a saved file raises nothing and returns the object that was
\* saved, the second save changes updated only, and full_name is not in the
\* file
C16_RoundTripPreservesFields ==
    /\ \A k \in SavedThenLoaded :
            /\ hist[k + 1].raised = "none"
            /\ hist[k + 1].after = hist[k].after
    /\ \A k \in RoundTrips :
            /\ ExceptUpdated(hist[k + 2].after) = ExceptUpdated(hist[k].before)
            /\ hist[k + 1].after = hist[k].after
            /\ "full_name" \notin Keys(hist[k].fileAfter.doc)
            /\ ExceptUpdated(hist[k + 2].after) = ExceptUpdated(hist[k + 2].before)

\* the round trip of a feature created at a time with microseconds, with a
\* defaulted branch and two tasks whose every field is set (texts that read
\* as a number and as null, an empty summary, times), the clock advancing
\* between the two saves
C16_Witness ==
    /\ 2 \in RoundTrips
    /\ hist[2].before.tasks = DetailedTasks
    /\ hist[2].before.created = 1
    /\ hist[2].before.branch = full_name(FeatureId, FeatureName)
    /\ hist[4].after.tasks = DetailedTasks
    /\ hist[4].after.created = 1
    /\ hist[4].after.branch = full_name(FeatureId, FeatureName)
    /\ hist[4].after.updated > hist[2].after.updated

----------------------------------------------------------------------------
(* SpecLoad: a state file with some content, or none, loaded once by       *)
(* FeatureState.load_from_file or by load_spec_state                       *)

\* a feature as it is saved, with tasks; the same with an in_progress task
\* whose dependency is pending, as an editor of the file may leave it
SavedFeatureDoc ==
    yaml_text(model_validate(FeatureKwargs \o <<Entry("tasks", ChainTasks)>>).value)

BrokenDependencyDoc ==
    yaml_dump(<<Entry("id", PyStr(<<FeatureId>>)),
                Entry("name", PyStr(<<FeatureName>>)),
                Entry("tasks",
                      PyList(<<PyDict(task_dump(TaskInfo("T001", "pending", DefaultPriority, <<>>))),
                               PyDict(task_dump(TaskInfo("T002", "in_progress", DefaultPriority,
                                                         <<"T001">>)))>>))>>)

SavedSpecDoc == yaml_content(StoredState)

\* documents whose top level is a YAML sequence
ListDocs == {<<ListItem("T001")>>, <<ListItem("T001"), ListItem("T002")>>}

\* the contents of the state file: none, empty, the saved documents whole and
\* cut short (with and without a torn line), sequences at the top level
LoadFiles ==
    {NoFile} \cup
    {File(d) : d \in {SavedFeatureDoc, BrokenDependencyDoc, SavedSpecDoc}} \cup
    {File(d) : d \in PartialWrites(SavedFeatureDoc) \cup PartialWrites(SavedSpecDoc)} \cup
    {File(d) : d \in ListDocs} \cup
    {File(d \o <<TornLine>>) : d \in ListDocs} \cup
    {File(<<BadBytes>>), File(SavedSpecDoc \o <<BadBytes>>)}

InitLoad ==
    /\ clock = 0
    /\ feature = NoFeature
    /\ error = NoError
    /\ file \in LoadFiles
    /\ prevFile = NoFile
    /\ ret = NoRet
    /\ fields = <<>>
    /\ pc = "idle"
    /\ disk = [n \in TmpNames |-> NoFile]
    /\ pending = <<>>
    /\ tmpName = NoTmp
    /\ oldDoc = NoFile
    /\ w = [i \in Writers |-> IdleWriter]
    /\ rd = IdleReader
    /\ log = <<>>
    /\ hist = <<>>
    /\ dirExists = TRUE

\* FeatureState.load_from_file(path)
LoadFeatureFile ==
    /\ hist = <<>>
    /\ LoadFromFile
    /\ hist' = <<Op("load_from_file", feature, feature', error'.kind, dirExists, dirExists, file)>>
    /\ UNCHANGED <<file, prevFile, fields, idleVars, dirExists, clock>>

\* load_spec_state(state_file)
LoadSpecFile ==
    /\ hist = <<>>
    /\ LoadSpecState
    /\ hist' = <<Op("load_spec_state", feature, feature', error'.kind, dirExists, dirExists, file)>>
    /\ UNCHANGED <<file, prevFile, fields, idleVars, dirExists, clock>>

NextLoad == LoadFeatureFile \/ LoadSpecFile

SpecLoad == InitLoad /\ [][NextLoad]_vars

\* the error kind a load reported: by the exception load_from_file raised, by
\* the message of the StateLoadError load_spec_state raised
ReportedKind ==
    IF error = NoError THEN "none"
    ELSE IF error.kind = "FileNotFoundError" \/ error = StateLoadError("File not found")
    THEN "NotFound"
    ELSE IF error.kind = "YAMLError" \/ error = StateLoadError("YAML parsing error")
    THEN "ParseError"
    ELSE IF (error.kind = "ValueError" /\ error.errors = <<"empty">>)
            \/ error = StateLoadError("File is empty")
    THEN "EmptyContent"
    ELSE IF error = StateLoadError("Expected YAML mapping") THEN "SchemaMismatch"
    ELSE IF error.kind = "ValidationError" \/ error = StateLoadError("Validation error(s)")
    THEN "ValidationFailed"
    ELSE "other"

\* the error kind the state file calls for, decided in the order NotFound,
\* ParseError, EmptyContent, SchemaMismatch, ValidationFailed
ExpectedKind(f, rejects) ==
    IF ~f.exists THEN "NotFound"
    ELSE IF yaml_malformed(f) \/ undecodable(f) THEN "ParseError"
    ELSE IF f.doc = <<>> THEN "EmptyContent"
    ELSE IF ~is_mapping(f.doc) THEN "SchemaMismatch"
    ELSE IF rejects THEN "ValidationFailed"
    ELSE "none"

Rejects(op, f) ==
    IF op = "load_spec_state" THEN ~spec_state_validate(spec_coerce(safe_load(f))).ok
    ELSE ~model_validate(coerce(safe_load(f))).ok

\* C17: a load reports the one error kind its input calls for, NotFound
\* before ParseError before EmptyContent before SchemaMismatch (a list at the
\* top level) before ValidationFailed, and returns an object only when none
\* applies
C17_LoadReportsKindInOrder ==
    hist # <<>> =>
        /\ ReportedKind = ExpectedKind(file, Rejects(hist[1].op, file))
        /\ (hist[1].after # NoFeature) <=> (ReportedKind = "none")

\* the same statement for load_spec_state alone, on files that are UTF-8 text
SpecStateLoadReportsKindInOrder ==
    (hist # <<>> /\ hist[1].op = "load_spec_state" /\ ~undecodable(file)) =>
        /\ ReportedKind = ExpectedKind(file, Rejects(hist[1].op, file))
        /\ (hist[1].after # NoFeature) <=> (ReportedKind = "none")

----------------------------------------------------------------------------
(* projspec/state.py: load_active_specs and get_current_spec                *)

\* the return value None of get_current_spec
NoSpec == [kind |-> "NoSpec"]

\* an entry of .projspec/specs/active as iterdir() yields it: its name,
\* whether it is a directory, its state.yaml and that file's st_mtime
DirEntry(name, is_dir, state, mtime) ==
    [name |-> name, is_dir |-> is_dir, state |-> state, mtime |-> mtime]

\* the loop of load_active_specs from entry k on, specs loaded so far
RECURSIVE scan_entries(_, _, _, _)
scan_entries(entries, strict, k, specs) ==
    IF k > Len(entries) THEN [raised |-> NoError, specs |-> specs]
    ELSE IF ~entries[k].is_dir THEN scan_entries(entries, strict, k + 1, specs)
    ELSE IF ~entries[k].state.exists THEN scan_entries(entries, strict, k + 1, specs)
    ELSE LET r == load_spec_state(entries[k].state)
         IN  IF r.ok THEN scan_entries(entries, strict, k + 1, Append(specs, r.value))
             ELSE IF r.error.kind = "StateLoadError" /\ ~strict
             THEN scan_entries(entries, strict, k + 1, specs)
             ELSE [raised |-> r.error, specs |-> <<>>]

\* load_active_specs(base_path, strict=strict): the list returned, or the
\* exception that leaves the function
load_active_specs(dir, strict) ==
    IF ~dir.exists \/ ~dir.is_dir THEN [raised |-> NoError, specs |-> <<>>]
    ELSE scan_entries(dir.entries, strict, 1, <<>>)

\* (active_dir / spec_id / "state.yaml").exists(), and the st_mtime of that file
state_file_exists(dir, spec_id) ==
    \E k \in DOMAIN dir.entries :
        /\ dir.entries[k].name = spec_id
        /\ dir.entries[k].is_dir
        /\ dir.entries[k].state.exists

st_mtime(dir, spec_id) ==
    dir.entries[CHOOSE k \in DOMAIN dir.entries : dir.entries[k].name = spec_id].mtime

\* the loop of get_current_spec from spec k on
RECURSIVE most_recent(_, _, _, _, _)
most_recent(dir, specs, k, most_recent_spec, most_recent_mtime) ==
    IF k > Len(specs) THEN most_recent_spec
    ELSE IF state_file_exists(dir, specs[k].spec_id)
            /\ st_mtime(dir, specs[k].spec_id) > most_recent_mtime
    THEN most_recent(dir, specs, k + 1, specs[k], st_mtime(dir, specs[k].spec_id))
    ELSE most_recent(dir, specs, k + 1, most_recent_spec, most_recent_mtime)

\* get_current_spec(base_path): the spec returned (NoSpec for None), or the
\* exception that leaves the function
get_current_spec(dir) ==
    LET r == load_active_specs(dir, FALSE)
    IN  IF r.raised # NoError THEN [raised |-> r.raised, spec |-> NoSpec]
        ELSE IF r.specs = <<>> THEN [raised |-> NoError, spec |-> NoSpec]
        ELSE [raised |-> NoError, spec |-> most_recent(dir, r.specs, 1, NoSpec, 0)]

----------------------------------------------------------------------------
(* SpecScan: a directory .projspec/specs/active with a few entries, scanned *)
(* by load_active_specs and by get_current_spec                            *)

\* the names of the entries, in the order iterdir() yields them
DirNames == <<"a1b2c3d4", "0000beef", "cafe0001">>

MaxEntries == Len(DirNames)

\* a spec id that no entry is named by
OtherId == "ffff0000"

MaxMtime == 2

SpecDoc(id) ==
    yaml_content(spec_state_validate(
        <<Entry("spec_id", id), Entry("name", FeatureName),
          Entry("created_at", 0),
          Entry("branch", <<"spec/", SpecId, "-", "user", "-auth">>),
          Entry("worktree_path", <<"worktrees/spec-", SpecId, "-", "user", "-auth">>)>>).value)

\* what an entry may be: a plain file, a directory without state.yaml, a
\* directory with the state of the spec it is named by, with the state of a
\* spec of another id, or with a state.yaml that does not load
EntryKinds ==
    {"file", "no_state", "ok", "other_id", "empty", "list", "torn", "invalid", "undecodable"}

StateOfKind(kind, name) ==
    IF kind \in {"file", "no_state"} THEN NoFile
    ELSE IF kind = "ok" THEN File(SpecDoc(name))
    ELSE IF kind = "other_id" THEN File(SpecDoc(OtherId))
    ELSE IF kind = "empty" THEN File(<<>>)
    ELSE IF kind = "list" THEN File(<<ListItem("T001")>>)
    ELSE IF kind = "torn" THEN File(<<Entry("spec_id", Plain(<<name>>)), TornLine>>)
    ELSE IF kind = "invalid" THEN File(<<Entry("spec_id", Plain(<<name>>))>>)
    ELSE File(<<BadBytes>>)

ActiveDir(exists, kinds, mtimes) ==
    [exists |-> exists, is_dir |-> exists,
     entries |-> [k \in DOMAIN kinds |->
                    DirEntry(DirNames[k], kinds[k] # "file",
                             StateOfKind(kinds[k], DirNames[k]), mtimes[k])]]

InitScan ==
    /\ feature = NoFeature
    /\ error = NoError
    /\ file = NoFile
    /\ prevFile = NoFile
    /\ ret = NoRet
    /\ \/ fields = ActiveDir(FALSE, <<>>, <<>>)
       \/ \E n \in 0..MaxEntries :
            \E kinds \in [1..n -> EntryKinds], mtimes \in [1..n -> 0..MaxMtime] :
                /\ \A k \in 1..n : kinds[k] \in {"file", "no_state"} => mtimes[k] = 0
                /\ fields = ActiveDir(TRUE, kinds, mtimes)
    /\ IdleStore

\* load_active_specs(base_path, strict=strict)
LoadActiveSpecs ==
    /\ \E strict \in BOOLEAN :
        ret' = [op |-> "load_active_specs", strict |-> strict,
                result |-> load_active_specs(fields, strict)]
    /\ UNCHANGED <<feature, error, file, prevFile, fields, restVars>>

\* get_current_spec(base_path)
GetCurrentSpec ==
    /\ ret' = [op |-> "get_current_spec", strict |-> FALSE,
               result |-> get_current_spec(fields)]
    /\ UNCHANGED <<feature, error, file, prevFile, fields, restVars>>

NextScan == LoadActiveSpecs \/ GetCurrentSpec

SpecScan == InitScan /\ [][NextScan]_vars

\* the entries load is attempted on, and those whose state file loads
Attempts(dir) ==
    {k \in DOMAIN dir.entries : dir.entries[k].is_dir /\ dir.entries[k].state.exists}

Loads(dir) == {k \in Attempts(dir) : load_spec_state(dir.entries[k].state).ok}

RECURSIVE LoadedAt(_, _, _)
LoadedAt(dir, E, k) ==
    IF k > Len(dir.entries) THEN <<>>
    ELSE (IF k \in E THEN <<load_spec_state(dir.entries[k].state).value>> ELSE <<>>)
            \o LoadedAt(dir, E, k + 1)

\* C18: load_active_specs attempts the entries that are directories with a
\* state file.  Not strict: it raises nothing and returns exactly the states
\* that load, in order.  Strict: it raises what the first failing load
\* raised, and returns all states when none fails.  A missing directory gives
\* the empty list in both modes.
C18_LoadAllSkipsOrAborts ==
    ret.op = "load_active_specs" =>
        /\ ~fields.exists => ret.result = [raised |-> NoError, specs |-> <<>>]
        /\ ~ret.strict =>
                ret.result = [raised |-> NoError, specs |-> LoadedAt(fields, Loads(fields), 1)]
        /\ (ret.strict /\ Attempts(fields) = Loads(fields)) =>
                ret.result = [raised |-> NoError, specs |-> LoadedAt(fields, Loads(fields), 1)]
        /\ (ret.strict /\ Attempts(fields) # Loads(fields)) =>
                ret.result.raised =
                    load_spec_state(fields.entries[Min(Attempts(fields) \ Loads(fields))].state).error

\* the same statement for directories whose state files are all UTF-8 text
TextFilesOnly(dir) == \A k \in DOMAIN dir.entries : ~undecodable(dir.entries[k].state)

LoadAllSkipsOrAbortsOnTextFiles ==
    (ret.op = "load_active_specs" /\ TextFilesOnly(fields)) =>
        /\ ~fields.exists => ret.result = [raised |-> NoError, specs |-> <<>>]
        /\ ~ret.strict =>
                ret.result = [raised |-> NoError, specs |-> LoadedAt(fields, Loads(fields), 1)]
        /\ (ret.strict /\ Attempts(fields) = Loads(fields)) =>
                ret.result = [raised |-> NoError, specs |-> LoadedAt(fields, Loads(fields), 1)]
        /\ (ret.strict /\ Attempts(fields) # Loads(fields)) =>
                ret.result.raised =
                    load_spec_state(fields.entries[Min(Attempts(fields) \ Loads(fields))].state).error

\* C19: get_current_spec returns None only when the directory is absent or no
\* state loads; otherwise it returns a loaded state whose state file is at
\* least as recent as that of every other loaded state
C19_MostRecentlyModified ==
    ret.op = "get_current_spec" =>
        /\ ret.result.raised = NoError
        /\ ret.result.spec = NoSpec <=> (~fields.exists \/ Loads(fields) = {})
        /\ ret.result.spec # NoSpec =>
            \E k \in Loads(fields) :
                /\ ret.result.spec = load_spec_state(fields.entries[k].state).value
                /\ \A j \in Loads(fields) : fields.entries[k].mtime >= fields.entries[j].mtime

\* the same statement for text files, names equal to the stored ids and
\* modification times after the epoch
NamedByIdAfterEpoch(dir) ==
    \A k \in Loads(dir) :
        /\ load_spec_state(dir.entries[k].state).value.spec_id = dir.entries[k].name
        /\ dir.entries[k].mtime > 0

MostRecentlyModifiedWhenNamedById ==
    (ret.op = "get_current_spec" /\ TextFilesOnly(fields) /\ NamedByIdAfterEpoch(fields)) =>
        /\ ret.result.raised = NoError
        /\ ret.result.spec = NoSpec <=> (~fields.exists \/ Loads(fields) = {})
        /\ ret.result.spec # NoSpec =>
            \E k \in Loads(fields) :
                /\ ret.result.spec = load_spec_state(fields.entries[k].state).value
                /\ \A j \in Loads(fields) : fields.entries[k].mtime >= fields.entries[j].mtime

----------------------------------------------------------------------------
(* services/status.py: _parse_tasks_from_markdown                          *)

\* a line of tasks.md by what the patterns of the parser find in it: whether
\* it starts a task ("## T001: name", "- [x] T001: name", "- [ ] T001: name")
\* and, when it does not, the word after "Status:", the value after
\* "Priority:" and the ids after "Depends on:" ("" and <<>>: no match)
Line(start, id, status, priority, depends) ==
    [start |-> start, id |-> id, status |-> status, priority |-> priority,
     depends |-> depends]

TaskStart(start, id) == Line(start, id, "", "", <<>>)

FieldLine(status, priority, depends) == Line("none", "", status, priority, depends)

\* str.lower() and str.upper() on the words the documents use
lower(word) == IF word = "COMPLETED" THEN "completed" ELSE word

upper(word) == IF word = "p1" THEN "P1" ELSE word

\* current_task = {}: no task started yet
NoCurrent == [set |-> FALSE, id |-> "", status |-> "", priority |-> "", depends |-> <<>>]

\* a flush that appends the task whether or not it validates
flush_Unvalidated(tasks, current) ==
    IF current.set
    THEN Append(tasks, TaskInfo(current.id, current.status,
                                IF current.priority = "" THEN DefaultPriority
                                ELSE current.priority,
                                current.depends))
    ELSE tasks

\* "Save previous task if any": TaskInfo(**current_task) appended, an
\* exception of the validation suppressed
flush(tasks, current) ==
    IF current.set /\ \A d \in Elems(current.depends) : matches_task_id(d)
    THEN Append(tasks, TaskInfo(current.id, current.status,
                                IF current.priority = "" THEN DefaultPriority
                                ELSE current.priority,
                                current.depends))
    ELSE tasks

\* field lines of which the first match of the priority and of the
\* dependencies wins
apply_fields_FirstWins(current, line) ==
    IF ~current.set THEN current
    ELSE [current EXCEPT
            !.status = IF line.status # "" /\ lower(line.status) \in TaskStatuses
                       THEN lower(line.status) ELSE @,
            !.priority = IF line.priority # "" /\ @ = "" THEN upper(line.priority) ELSE @,
            !.depends = IF line.depends # <<>> /\ @ = <<>> THEN line.depends ELSE @]

\* field lines whose Depends on field is not taken
apply_fields_NoDepends(current, line) ==
    IF ~current.set THEN current
    ELSE [current EXCEPT
            !.status = IF line.status # "" /\ lower(line.status) \in TaskStatuses
                       THEN lower(line.status) ELSE @,
            !.priority = IF line.priority # "" THEN upper(line.priority) ELSE @]

\* what a line that starts no task does to current_task
apply_fields(current, line) ==
    IF ~current.set THEN current
    ELSE [current EXCEPT
            !.status = IF line.status # "" /\ lower(line.status) \in TaskStatuses
                       THEN lower(line.status) ELSE @,
            !.priority = IF line.priority # "" THEN upper(line.priority) ELSE @,
            !.depends = IF line.depends # <<>> THEN line.depends ELSE @]

\* the loop over the lines from line k on, and the flush after the last line
RECURSIVE parse_lines(_, _, _, _)
parse_lines(lines, k, tasks, current) ==
    IF k > Len(lines) THEN flush(tasks, current)
    ELSE IF lines[k].start = "header"
    THEN parse_lines(lines, k + 1, flush(tasks, current),
                     [NoCurrent EXCEPT !.set = TRUE, !.id = lines[k].id, !.status = "pending"])
    ELSE IF lines[k].start \in {"checked", "unchecked"}
    THEN parse_lines(lines, k + 1, flush(tasks, current),
                     [NoCurrent EXCEPT !.set = TRUE, !.id = lines[k].id,
                                       !.status = IF lines[k].start = "checked"
                                                  THEN "completed" ELSE "pending"])
    ELSE parse_lines(lines, k + 1, tasks, apply_fields(current, lines[k]))

\* tasks.md: absent, or a file of lines
NoMarkdown == [exists |-> FALSE, lines |-> <<>>]

Markdown(lines) == [exists |-> TRUE, lines |-> lines]

parse_tasks_from_markdown(md) ==
    IF ~md.exists THEN <<>> ELSE parse_lines(md.lines, 1, <<>>, NoCurrent)

----------------------------------------------------------------------------
(* services/status.py: get_feature_status                                  *)

\* a feature directory: whether spec.md and plan.md exist, tasks.md, state.yaml
FeatureDir(has_spec, has_plan, tasks_md, state) ==
    [has_spec |-> has_spec, has_plan |-> has_plan, tasks_md |-> tasks_md, state |-> state]

\* the phase inferred from the files when the phase is still NEW
infer_phase(phase, has_spec, has_plan, has_tasks, progress) ==
    IF phase # "new" THEN phase
    ELSE IF has_tasks /\ progress.total > 0
    THEN IF is_complete(progress) THEN "complete"
         ELSE IF progress.in_progress > 0 \/ progress.completed > 0 THEN "implement"
         ELSE "tasks"
    ELSE IF has_plan THEN "plan"
    ELSE IF has_spec THEN "spec"
    ELSE phase

\* get_feature_status from the directory found on: the FeatureStatus of the
\* directory "<id>-<name>", with the tasks it was computed from
feature_status_of(id, name, dir) ==
    LET has_tasks == dir.tasks_md.exists
        has_state == dir.state.exists
        loaded == load_from_file(dir.state)
        state_ok == has_state /\ loaded.ok
        phase == IF state_ok THEN loaded.value.phase ELSE DefaultPhase
        state_tasks == IF state_ok THEN loaded.value.tasks ELSE <<>>
        tasks == IF state_tasks = <<>> /\ has_tasks
                 THEN parse_tasks_from_markdown(dir.tasks_md) ELSE state_tasks
        task_progress == calculate_task_progress(tasks)
    IN  [id |-> id,
         name |-> name,
         full_name |-> full_name(id, name),
         phase |-> infer_phase(phase, dir.has_spec, dir.has_plan, has_tasks, task_progress),
         branch |-> IF state_ok THEN loaded.value.branch
                    ELSE full_name(id, name),
         task_progress |-> task_progress,
         has_spec |-> dir.has_spec,
         has_plan |-> dir.has_plan,
         has_tasks |-> has_tasks,
         has_state |-> has_state,
         next_available_task |-> get_next_available_task(tasks),
         tasks |-> tasks,
         loaded_phase |-> phase]

\* get_feature_status(feature_id, path) for the feature directory of
\* FeatureId and FeatureName
get_feature_status(dir) == feature_status_of(FeatureId, FeatureName, dir)

----------------------------------------------------------------------------
(* SpecStatus: a feature directory with some of its artifacts, reported by *)
(* get_feature_status                                                      *)

\* tasks.md documents: without a task, with pending, started, completed and
\* skipped tasks, with a task whose dependency is written "t001", with field
\* lines before the first task and with repeated field lines
MarkdownDocs ==
    {<<>>,
     <<TaskStart("unchecked", "T001")>>,
     <<TaskStart("checked", "T001")>>,
     <<TaskStart("checked", "T001"), TaskStart("unchecked", "T002"),
       FieldLine("", "", <<"T001">>)>>,
     <<TaskStart("header", "T001"), FieldLine("in_progress", "p1", <<>>)>>,
     <<TaskStart("header", "T001"), FieldLine("skipped", "", <<>>)>>,
     <<TaskStart("header", "T001"), FieldLine("", "", <<"t001">>)>>,
     <<FieldLine("completed", "", <<>>)>>,
     <<FieldLine("completed", "P1", <<"T002">>), TaskStart("unchecked", "T001"),
       FieldLine("", "P3", <<"T002">>), FieldLine("in_progress", "", <<>>),
       FieldLine("done", "p1", <<"T003">>)>>,
     <<TaskStart("header", "T001"), FieldLine("", "", <<"t001">>),
       TaskStart("checked", "T002"), TaskStart("unchecked", "T003")>>,
     <<TaskStart("checked", "T001"), TaskStart("header", "T002"),
       FieldLine("COMPLETED", "", <<>>), FieldLine("done", "", <<>>)>>}

\* task lists of a state file
StateTaskLists ==
    {<<>>,
     ChainTasks,
     <<TaskInfo("T001", "pending", DefaultPriority, <<>>)>>,
     <<TaskInfo("T001", "completed", DefaultPriority, <<>>),
       TaskInfo("T002", "skipped", DefaultPriority, <<>>)>>}

StatePhases == {"new", "plan", "review"}

\* state.yaml: absent, not loadable, or a saved feature
StateFiles ==
    {NoFile, File(<<>>), File(<<TornLine>>), File(BrokenDependencyDoc)} \cup
    {File(yaml_text(model_validate(
            FeatureKwargs \o <<Entry("phase", p), Entry("tasks", t)>>).value)) :
        p \in StatePhases, t \in StateTaskLists}

InitStatus ==
    /\ clock = 0
    /\ feature = NoFeature
    /\ error = NoError
    /\ file = NoFile
    /\ prevFile = NoFile
    /\ ret = NoRet
    /\ \E has_spec \in BOOLEAN, has_plan \in BOOLEAN,
          md \in {NoMarkdown} \cup {Markdown(d) : d \in MarkdownDocs},
          state \in StateFiles :
            fields = FeatureDir(has_spec, has_plan, md, state)
    /\ pc = "idle"
    /\ disk = [n \in TmpNames |-> NoFile]
    /\ pending = <<>>
    /\ tmpName = NoTmp
    /\ oldDoc = NoFile
    /\ w = [i \in Writers |-> IdleWriter]
    /\ rd = IdleReader
    /\ log = <<>>
    /\ hist = <<>>
    /\ dirExists = TRUE

\* get_feature_status(feature_id, path)
FeatureStatus ==
    /\ ret' = [op |-> "get_feature_status", result |-> get_feature_status(fields)]
    /\ UNCHANGED <<feature, error, file, prevFile, fields, restVars>>

\* _parse_tasks_from_markdown(tasks_path)
ParseMarkdown ==
    /\ ret' = [op |-> "parse_tasks_from_markdown",
               result |-> parse_tasks_from_markdown(fields.tasks_md)]
    /\ UNCHANGED <<feature, error, file, prevFile, fields, restVars>>

NextStatus == FeatureStatus \/ ParseMarkdown

SpecStatus == InitStatus /\ [][NextStatus]_vars

\* the phase the precedence gives for the tasks obtained and the documents
PhaseByPrecedence(progress, has_plan, has_spec) ==
    IF is_complete(progress) THEN "complete"
    ELSE IF progress.in_progress > 0 \/ progress.completed > 0 THEN "implement"
    ELSE IF progress.total > 0 THEN "tasks"
    ELSE IF has_plan THEN "plan"
    ELSE IF has_spec THEN "spec"
    ELSE "new"

\* C20: get_feature_status keeps a loaded phase other than new; for the
\* phase new it reports the phase of the first rule that applies to the
\* tasks it obtained (from state.yaml or from tasks.md) and to the documents:
\* complete, implement, tasks, plan, spec, new
C20_PhaseInferredByPrecedence ==
    ret.op = "get_feature_status" =>
        ret.result.phase =
            IF ret.result.loaded_phase # "new" THEN ret.result.loaded_phase
            ELSE PhaseByPrecedence(calculate_task_progress(ret.result.tasks),
                                   ret.result.has_plan, ret.result.has_spec)

\* the same statement for features that have a tasks.md whenever they have tasks
PhaseInferredByPrecedenceWithTasksFile ==
    (ret.op = "get_feature_status" /\ (ret.result.tasks # <<>> => ret.result.has_tasks)) =>
        ret.result.phase =
            IF ret.result.loaded_phase # "new" THEN ret.result.loaded_phase
            ELSE PhaseByPrecedence(calculate_task_progress(ret.result.tasks),
                                   ret.result.has_plan, ret.result.has_spec)

\* whether the structured load of a feature directory succeeds
state_loads(dir) == dir.state.exists /\ load_from_file(dir.state).ok

\* C21: get_feature_status uses the Markdown extractor exactly as a
\* fallback: when state.yaml is absent or does not load, the fields are the
\* defaults and the tasks are those extracted from tasks.md; when it loads,
\* the tasks, the progress and the next available task are those of the
\* state file
C21_MarkdownIsFallbackOnly ==
    ret.op = "get_feature_status" =>
        IF state_loads(fields)
        THEN LET stored == load_from_file(fields.state).value.tasks
             IN  /\ ret.result.tasks = stored
                 /\ ret.result.task_progress = calculate_task_progress(stored)
                 /\ ret.result.next_available_task = get_next_available_task(stored)
        ELSE /\ ret.result.loaded_phase = DefaultPhase
             /\ ret.result.branch = full_name(FeatureId, FeatureName)
             /\ ret.result.tasks = parse_tasks_from_markdown(fields.tasks_md)

\* the same statement for state files that hold at least one task
MarkdownIsFallbackForStateWithTasks ==
    (ret.op = "get_feature_status"
        /\ (state_loads(fields) => load_from_file(fields.state).value.tasks # <<>>)) =>
        IF state_loads(fields)
        THEN LET stored == load_from_file(fields.state).value.tasks
             IN  /\ ret.result.tasks = stored
                 /\ ret.result.task_progress = calculate_task_progress(stored)
                 /\ ret.result.next_available_task = get_next_available_task(stored)
        ELSE /\ ret.result.loaded_phase = DefaultPhase
             /\ ret.result.branch = full_name(FeatureId, FeatureName)
             /\ ret.result.tasks = parse_tasks_from_markdown(fields.tasks_md)

----------------------------------------------------------------------------
(* services/status.py: get_project_status; utils/paths.py: list_features,  *)
(* _find_feature_dir                                                       *)

\* an entry of specs/: its name "<num>-<slug>", whether it is a directory
\* whose name matches FEATURE_DIR_PATTERN, and the artifacts in it
SpecsEntry(num, slug, is_feature, dir) ==
    [num |-> num, slug |-> slug, is_feature |-> is_feature, dir |-> dir]

\* a project: whether .specify/ exists, .specify/config.yaml ("absent",
\* "invalid" or "ok") and the entries of specs/ in the order of their names
Project(specify, config, entries) ==
    [specify |-> specify, config |-> config, entries |-> entries]

ProjectName == "demo"

\* get_feature_status returning None
NoStatus == [id |-> "None"]

\* list_features(path): the positions of the feature directories, sorted
list_features(project) ==
    IF ~project.specify THEN <<>>
    ELSE LET is_feature(k) == project.entries[k].is_feature
         IN  SelectSeq([k \in 1..Len(project.entries) |-> k], is_feature)

\* get_feature_status(feature_id, path) for the entry at position k of specs/
feature_status_at(project, k) ==
    IF ~project.specify \/ k \notin DOMAIN project.entries THEN NoStatus
    ELSE IF ~project.entries[k].is_feature THEN NoStatus
    ELSE feature_status_of(project.entries[k].num, project.entries[k].slug,
                           project.entries[k].dir)

\* features_by_phase[phase_name] = features_by_phase.get(phase_name, 0) + 1
count_phase(by_phase, phase_name) ==
    [p \in DOMAIN by_phase \cup {phase_name} |->
        IF p = phase_name
        THEN (IF p \in DOMAIN by_phase THEN by_phase[p] ELSE 0) + 1
        ELSE by_phase[p]]

\* completed_tasks += completed (without the skipped tasks)
add_completed_CompletedOnly(completed_tasks, task_progress) ==
    completed_tasks + task_progress.completed

\* completed_tasks += completed + skipped
add_completed(completed_tasks, task_progress) ==
    completed_tasks + (task_progress.completed + task_progress.skipped)

NoAggregate ==
    [features |-> <<>>, total_tasks |-> 0, completed_tasks |-> 0, features_by_phase |-> <<>>]

\* the body of the loop: a status that is not None is appended and counted
add_status(acc, status) ==
    IF status = NoStatus THEN acc
    ELSE [features |-> Append(acc.features, status),
          total_tasks |-> acc.total_tasks + status.task_progress.total,
          completed_tasks |-> add_completed(acc.completed_tasks, status.task_progress),
          features_by_phase |-> count_phase(acc.features_by_phase, status.phase)]

\* the loop over feature_names from position k on
RECURSIVE aggregate(_, _, _, _)
aggregate(project, names, k, acc) ==
    IF k > Len(names) THEN acc
    ELSE aggregate(project, names, k + 1,
                   add_status(acc, feature_status_at(project, names[k])))

\* get_project_status(path): the StatusResult
get_project_status(project) ==
    IF ~project.specify
    THEN [success |-> FALSE, message |-> "Not in a ProjSpec project"]
    ELSE IF project.config = "absent"
    THEN [success |-> FALSE, message |-> "Project config not found"]
    ELSE IF project.config = "invalid"
    THEN [success |-> FALSE, message |-> "Failed to load project config"]
    ELSE LET acc == aggregate(project, list_features(project), 1, NoAggregate)
         IN  [success |-> TRUE,
              message |-> "status retrieved successfully",
              project_status |->
                [project_name |-> ProjectName,
                 features |-> acc.features,
                 total_features |-> Len(acc.features),
                 features_by_phase |-> acc.features_by_phase,
                 total_tasks |-> acc.total_tasks,
                 completed_tasks |-> acc.completed_tasks]]

----------------------------------------------------------------------------
(* SpecProject: a project with up to MaxFeatures entries in specs/, whose  *)
(* status is reported and whose first feature's state is saved             *)

MaxFeatures == 3

FeatureNumbers == <<"001", "002", "003", "004">>

SavedFeature(phase, tasks) ==
    File(yaml_text(model_validate(
        FeatureKwargs \o <<Entry("phase", phase), Entry("tasks", tasks)>>).value))

\* feature directories: empty; with a task document and no state; with a saved state of tasks completed and skipped; with an
\* unloadable state and a task document; with a plan and a saved state
\* without tasks
ProjectDirs ==
    {FeatureDir(FALSE, FALSE, NoMarkdown, NoFile),
     FeatureDir(TRUE, TRUE,
                Markdown(<<TaskStart("checked", "T001"), TaskStart("unchecked", "T002")>>),
                NoFile),
     FeatureDir(TRUE, TRUE, NoMarkdown,
                SavedFeature("review",
                             <<TaskInfo("T001", "completed", DefaultPriority, <<>>),
                               TaskInfo("T002", "skipped", DefaultPriority, <<>>)>>)),
     FeatureDir(TRUE, FALSE,
                Markdown(<<TaskStart("header", "T001"), FieldLine("skipped", "", <<>>),
                           TaskStart("unchecked", "T002")>>),
                File(<<TornLine>>)),
     FeatureDir(TRUE, TRUE, NoMarkdown, SavedFeature("new", <<>>))}

\* the objects whose state is saved into a feature directory
SavedObjects ==
    {FeatureKwargs \o <<Entry("tasks", <<TaskInfo("T001", "completed", DefaultPriority, <<>>)>>)>>}

InitProject ==
    /\ clock = 0
    /\ feature = NoFeature
    /\ error = NoError
    /\ file = NoFile
    /\ prevFile = NoFile
    /\ ret = NoRet
    /\ \E specify \in BOOLEAN, config \in {"absent", "invalid", "ok"}, n \in 0..MaxFeatures :
        \E dirs \in [1..n -> ProjectDirs], others \in SUBSET (1..n) :
            /\ (~specify => config = "absent")
            /\ Cardinality(others) <= 1
            /\ fields = Project(specify, config,
                    [k \in 1..n |-> SpecsEntry(FeatureNumbers[k], FeatureName,
                                               k \notin others, dirs[k])])
    /\ pc = "idle"
    /\ disk = [n \in TmpNames |-> NoFile]
    /\ pending = <<>>
    /\ tmpName = NoTmp
    /\ oldDoc = NoFile
    /\ w = [i \in Writers |-> IdleWriter]
    /\ rd = IdleReader
    /\ log = <<>>
    /\ hist = <<>>
    /\ dirExists = TRUE

\* get_project_status(path)
ProjectStatus ==
    /\ ret' = [op |-> "get_project_status", result |-> get_project_status(fields)]
    /\ UNCHANGED <<feature, error, file, prevFile, fields, restVars>>

\* a get_feature_status that stores what it inferred in state.yaml
FeatureStatusOf_WriteBack(k) ==
    /\ ret' = [op |-> "get_feature_status", result |-> feature_status_at(fields, k)]
    /\ fields' = IF ret'.result = NoStatus THEN fields
                 ELSE [fields EXCEPT !.entries[k].dir.state =
                            SavedFeature(ret'.result.phase, ret'.result.tasks)]
    /\ UNCHANGED <<feature, error, file, prevFile, restVars>>

\* get_feature_status(feature_id, path)
FeatureStatusOf(k) ==
    /\ ret' = [op |-> "get_feature_status", result |-> feature_status_at(fields, k)]
    /\ UNCHANGED <<feature, error, file, prevFile, fields, restVars>>

\* FeatureState(**kwargs).save_to_file(specs/<feature>/state.yaml)
SaveFeatureOf(k, kwargs) ==
    /\ k \in DOMAIN fields.entries
    /\ fields.entries[k].is_feature
    /\ LET saved == File(yaml_text(model_validate(kwargs).value))
       IN  /\ fields.entries[k].dir.state # saved
           /\ fields' = [fields EXCEPT !.entries[k].dir.state = saved]
    /\ ret' = [op |-> "save_to_file", result |-> k]
    /\ UNCHANGED <<feature, error, file, prevFile, restVars>>

NextProject ==
    \/ ProjectStatus
    \/ \E k \in 1..(MaxFeatures + 1) : FeatureStatusOf(k)
    \/ \E kwargs \in SavedObjects : SaveFeatureOf(1, kwargs)

SpecProject == InitProject /\ [][NextProject]_vars

\* the sum of value(k) over the positions of a sequence
RECURSIVE SumOver(_, _)
SumOver(seq, k) ==
    IF k = 0 THEN 0 ELSE seq[k] + SumOver(seq, k - 1)

Sum(seq) == SumOver(seq, Len(seq))

\* the known features of a project: its feature directories in specs/
KnownFeatures(project) == {k \in DOMAIN project.entries : project.entries[k].is_feature}

\* C22: a successful get_project_status holds one feature status per known
\* feature, the one get_feature_status gives; total_tasks is the sum of the
\* features' totals, completed_tasks the sum of their completed and skipped
\* counts, features_by_phase[p] the number of features of phase p; the
\* buckets sum to total_features and completed_tasks <= total_tasks
C22_ProjectStatusAggregates ==
    (ret.op = "get_project_status" /\ ret.result.success) =>
        LET ps == ret.result.project_status
            fs == ps.features
            known == list_features(fields)
            InPhase(p) == {k \in DOMAIN fs : fs[k].phase = p}
        IN  /\ Len(fs) = Cardinality(KnownFeatures(fields))
            /\ Len(known) = Len(fs)
            /\ \A k \in DOMAIN fs : fs[k] = feature_status_at(fields, known[k])
            /\ ps.total_features = Len(fs)
            /\ ps.total_tasks = Sum([k \in DOMAIN fs |-> fs[k].task_progress.total])
            /\ ps.completed_tasks =
                    Sum([k \in DOMAIN fs |->
                            fs[k].task_progress.completed + fs[k].task_progress.skipped])
            /\ \A p \in Phases :
                    IF p \in DOMAIN ps.features_by_phase
                    THEN ps.features_by_phase[p] = Cardinality(InPhase(p))
                    ELSE InPhase(p) = {}
            /\ DOMAIN ps.features_by_phase \subseteq Phases
            /\ LET ps_phases == DOMAIN ps.features_by_phase
                   RECURSIVE Buckets(_)
                   Buckets(S) == IF S = {} THEN 0
                                 ELSE LET p == CHOOSE q \in S : TRUE
                                      IN  ps.features_by_phase[p] + Buckets(S \ {p})
               IN  Buckets(ps_phases) = ps.total_features
            /\ ps.completed_tasks <= ps.total_tasks

\* a project status over features of two phases, one of them with a skipped task
C22_Witness ==
    /\ ret.op = "get_project_status"
    /\ ret.result.success
    /\ ret.result.project_status.total_features >= 2
    /\ Cardinality(DOMAIN ret.result.project_status.features_by_phase) >= 2
    /\ \E k \in DOMAIN ret.result.project_status.features :
            ret.result.project_status.features[k].task_progress.skipped > 0
    /\ ret.result.project_status.total_tasks > 0

StatusOps == {"get_feature_status", "get_project_status"}

\* C23: get_feature_status and get_project_status leave the project as it
\* is: every state file, Markdown document and directory, also when the
\* state file is missing or invalid and when a phase is inferred
C23_StatusIsReadOnly ==
    [][ret'.op \in StatusOps => fields' = fields]_vars

\* the status of a feature without a state file was reported with tasks from
\* tasks.md and an inferred phase, and the feature still has no state file
C23_Witness ==
    /\ ret.op = "get_feature_status"
    /\ ret.result # NoStatus
    /\ ~ret.result.has_state
    /\ ret.result.tasks # <<>>
    /\ ret.result.phase # DefaultPhase
    /\ \E k \in DOMAIN fields.entries :
            /\ fields.entries[k].num = ret.result.id
            /\ fields.entries[k].dir.state = NoFile
            /\ feature_status_at(fields, k) = ret.result

----------------------------------------------------------------------------
(* The Markdown extractor, block by block                                  *)

\* the positions of the task-start lines, in document order
Starts(lines) ==
    LET is_start(k) == lines[k].start # "none"
    IN  SelectSeq([k \in 1..Len(lines) |-> k], is_start)

\* the field lines of the block of the task-start line at position s: the
\* lines after it up to the next task-start line
Block(lines, s) ==
    {k \in (s + 1)..Len(lines) : \A j \in (s + 1)..k : lines[j].start = "none"}

ValidStatusLines(lines, s) ==
    {k \in Block(lines, s) : lines[k].status # "" /\ lower(lines[k].status) \in TaskStatuses}

PriorityLines(lines, s) == {k \in Block(lines, s) : lines[k].priority # ""}

DependsLines(lines, s) == {k \in Block(lines, s) : lines[k].depends # <<>>}

StartStatus(line) == IF line.start = "checked" THEN "completed" ELSE "pending"

\* the task of the block at s, by the last match of each field
BlockTask(lines, s) ==
    TaskInfo(lines[s].id,
             IF ValidStatusLines(lines, s) = {} THEN StartStatus(lines[s])
             ELSE lower(lines[Max(ValidStatusLines(lines, s))].status),
             IF PriorityLines(lines, s) = {} THEN DefaultPriority
             ELSE upper(lines[Max(PriorityLines(lines, s))].priority),
             IF DependsLines(lines, s) = {} THEN <<>>
             ELSE lines[Max(DependsLines(lines, s))].depends)

\* whether the task of the block at s passes the validation of TaskInfo
BlockValidates(lines, s) == \A d \in Elems(BlockTask(lines, s).depends_on) : matches_task_id(d)

\* the task-start lines whose task validates, in document order
EmittedStarts(lines) ==
    LET ok(s) == BlockValidates(lines, s) IN SelectSeq(Starts(lines), ok)

\* the document of the example: a checked T001, an unchecked T002 and a
\* Depends on field naming T001
ExampleDoc ==
    <<TaskStart("checked", "T001"), TaskStart("unchecked", "T002"),
      FieldLine("", "", <<"T001">>)>>

Parsed == ret.op = "parse_tasks_from_markdown" /\ fields.tasks_md.exists

\* C24: in the extracted tasks a checked checkbox line gives status
\* completed, an unchecked one and a heading give pending (when no Status
\* field follows), and a Depends on field in the lines that follow sets the
\* depends_on of that task; the example document gives T001 completed and
\* T002 pending with depends_on = <<T001>>, in this order
C24_CheckboxStatusAndDepends ==
    Parsed =>
        LET lines == fields.tasks_md.lines
            em == EmittedStarts(lines)
        IN  /\ Len(ret.result) = Len(em)
            /\ \A j \in DOMAIN em :
                /\ ValidStatusLines(lines, em[j]) = {} =>
                        ret.result[j].status = StartStatus(lines[em[j]])
                /\ DependsLines(lines, em[j]) # {} =>
                        \E k \in DependsLines(lines, em[j]) :
                            ret.result[j].depends_on = lines[k].depends
                /\ DependsLines(lines, em[j]) = {} => ret.result[j].depends_on = <<>>
            /\ lines = ExampleDoc =>
                    ret.result = <<TaskInfo("T001", "completed", DefaultPriority, <<>>),
                                   TaskInfo("T002", "pending", DefaultPriority, <<"T001">>)>>

\* the example document was parsed
C24_Witness ==
    /\ Parsed
    /\ fields.tasks_md.lines = ExampleDoc
    /\ Len(ret.result) = 2

\* the lines of a document from its first task-start line on
FromFirstStart(lines) ==
    IF Starts(lines) = <<>> THEN <<>>
    ELSE SubSeq(lines, Starts(lines)[1], Len(lines))

\* C26: in a block the last valid Status, the last Priority and the last
\* Depends on field win, in whatever order they appear; a Status value that
\* is no task status is ignored; field lines before the first task-start
\* line affect no task
C26_LastValidFieldWins ==
    Parsed =>
        LET lines == fields.tasks_md.lines
            em == EmittedStarts(lines)
        IN  /\ Len(ret.result) = Len(em)
            /\ \A j \in DOMAIN em :
                /\ ret.result[j].status = BlockTask(lines, em[j]).status
                /\ ret.result[j].priority = BlockTask(lines, em[j]).priority
                /\ ret.result[j].depends_on = BlockTask(lines, em[j]).depends_on
            /\ ret.result = parse_tasks_from_markdown(Markdown(FromFirstStart(lines)))

\* a task was extracted from a block with a field line before it, repeated
\* Priority and Depends on fields and an invalid Status after a valid one
C26_Witness ==
    /\ Parsed
    /\ Len(ret.result) = 1
    /\ LET lines == fields.tasks_md.lines
           s == Starts(lines)[1]
       IN  /\ s > 1
           /\ Cardinality(PriorityLines(lines, s)) > 1
           /\ Cardinality(DependsLines(lines, s)) > 1
           /\ \E k \in Block(lines, s) :
                /\ lines[k].status # ""
                /\ k \notin ValidStatusLines(lines, s)
                /\ k > Max(ValidStatusLines(lines, s))
           /\ ret.result[1].status = "in_progress"

\* C27: the extracted list holds, in document order, exactly one task for
\* each task-start line whose task passes the validation: none is lost or
\* doubled, a task that does not validate is dropped and the others stay,
\* and a document without a task-start line gives the empty list
C27_OneTaskPerValidStart ==
    Parsed =>
        LET lines == fields.tasks_md.lines
            em == EmittedStarts(lines)
        IN  /\ ret.result = [j \in DOMAIN em |-> BlockTask(lines, em[j])]
            /\ Starts(lines) = <<>> => ret.result = <<>>

\* a document of three task-start lines, the first of which does not
\* validate, gave the two others
C27_Witness ==
    /\ Parsed
    /\ Len(Starts(fields.tasks_md.lines)) = 3
    /\ Len(EmittedStarts(fields.tasks_md.lines)) = 2
    /\ Len(ret.result) = 2
    /\ ret.result[1].id = "T002"

----------------------------------------------------------------------------
(* services/init.py: initialize_project                                    *)

EXIT_SUCCESS == 0

EXIT_ALREADY_INITIALIZED == 1

EXIT_NOT_GIT_REPO == 2

Absent == "absent"

\* the directory .specify/: config.yaml and memory/constitution.md (the
\* project name they were written for, or Absent), whether the bundled
\* scripts and templates are in it, and whether it holds a file of the user
SpecifyDir(config, constitution, resources, notes) ==
    [exists |-> TRUE, config |-> config, constitution |-> constitution,
     resources |-> resources, notes |-> notes]

NoSpecifyDir ==
    [exists |-> FALSE, config |-> Absent, constitution |-> Absent,
     resources |-> FALSE, notes |-> FALSE]

\* the project root: whether it is in a git repository, .specify/, the
\* legacy projspec.yaml, specs/, worktrees/ and CLAUDE.md
Root(git, specify, legacy, specs, worktrees, claude_md) ==
    [git |-> git, specify |-> specify, legacy |-> legacy, specs |-> specs,
     worktrees |-> worktrees, claude_md |-> claude_md]

\* str.strip() on the project names the calls use
strip(name) == IF name = "  " THEN "" ELSE name

check_already_initialized(root) ==
    (root.specify.exists /\ root.specify.config # Absent) \/ root.legacy

\* shutil.rmtree(specify_dir) when force is set and .specify/ exists
force_cleanup(root, force) ==
    IF force /\ root.specify.exists THEN [root EXCEPT !.specify = NoSpecifyDir] ELSE root

\* create_directory_structure(path)
create_directory_structure(root) ==
    [root EXCEPT !.specify.exists = TRUE, !.specs = TRUE, !.worktrees = TRUE]

\* create_config_file, copy_scripts, copy_templates, create_constitution and
\* create_claude_md for a project name that validates
create_files(root, project_name) ==
    [root EXCEPT !.specify.config = strip(project_name),
                 !.specify.resources = TRUE,
                 !.specify.constitution = project_name,
                 !.claude_md = project_name]

InitResult(success, exit_code, raised) ==
    [success |-> success, exit_code |-> exit_code, raised |-> raised]

\* initialize_project(path, project_name, force, no_git): the project root
\* after the call and the InitResult, or the exception that left the call
initialize_project(root, project_name, force, no_git) ==
    IF check_already_initialized(root) /\ ~force
    THEN [root |-> root, result |-> InitResult(FALSE, EXIT_ALREADY_INITIALIZED, "none")]
    ELSE IF ~no_git /\ ~root.git
    THEN [root |-> root, result |-> InitResult(FALSE, EXIT_NOT_GIT_REPO, "none")]
    ELSE LET structured == create_directory_structure(force_cleanup(root, force))
         IN  IF strip(project_name) = ""
             THEN [root |-> structured,
                   result |-> InitResult(FALSE, EXIT_SUCCESS, "ValidationError")]
             ELSE [root |-> create_files(structured, project_name),
                   result |-> InitResult(TRUE, EXIT_SUCCESS, "none")]

----------------------------------------------------------------------------
(* SpecInit: a project root on which initialize_project is called again    *)
(* and again                                                               *)

ProjectNames == {"first-project", "second-project", "  "}

\* .specify/ before the first call: absent, or holding a file of the user only
InitialSpecifyDirs == {NoSpecifyDir, SpecifyDir(Absent, Absent, FALSE, TRUE)}

InitInit ==
    /\ clock = 0
    /\ feature = NoFeature
    /\ error = NoError
    /\ file = NoFile
    /\ prevFile = NoFile
    /\ ret = NoRet
    /\ \E git \in BOOLEAN, legacy \in BOOLEAN, specify \in InitialSpecifyDirs :
            fields = Root(git, specify, legacy, FALSE, FALSE, Absent)
    /\ pc = "idle"
    /\ disk = [n \in TmpNames |-> NoFile]
    /\ pending = <<>>
    /\ tmpName = NoTmp
    /\ oldDoc = NoFile
    /\ w = [i \in Writers |-> IdleWriter]
    /\ rd = IdleReader
    /\ log = <<>>
    /\ hist = <<>>
    /\ dirExists = TRUE

\* initialize_project(path, project_name, force, no_git)
InitializeProject(project_name, force, no_git) ==
    LET r == initialize_project(fields, project_name, force, no_git)
    IN  /\ fields' = r.root
        /\ ret' = [op |-> "initialize_project", result |-> r.result, force |-> force,
                   before |-> fields]
        /\ UNCHANGED <<feature, error, file, prevFile, restVars>>

\* the user puts a file of their own into .specify/memory/
AddNotes ==
    /\ fields.specify.exists
    /\ ~fields.specify.notes
    /\ fields' = [fields EXCEPT !.specify.notes = TRUE]
    /\ ret' = [op |-> "add_notes"]
    /\ UNCHANGED <<feature, error, file, prevFile, restVars>>

NextInit ==
    \/ \E project_name \in ProjectNames, force \in BOOLEAN, no_git \in BOOLEAN :
            InitializeProject(project_name, force, no_git)
    \/ AddNotes

SpecInit == InitInit /\ [][NextInit]_vars

\* a call that failed: it returned an InitResult whose success is False, or
\* an exception left it
Failed(result) == ~result.success

\* a call that returned an InitResult whose success is False
ReturnedFailure(result) == result.raised = "none" /\ ~result.success

\* C25: a call without force on an initialized project returns a failure
\* with EXIT_ALREADY_INITIALIZED and leaves every file as it was, and a call
\* that fails for any reason, with or without force, has removed and created
\* nothing
C25_FailedInitChangesNothing ==
    ret.op = "initialize_project" =>
        /\ (check_already_initialized(ret.before) /\ ~ret.force) =>
                /\ ReturnedFailure(ret.result)
                /\ ret.result.exit_code = EXIT_ALREADY_INITIALIZED
                /\ fields = ret.before
        /\ Failed(ret.result) => fields = ret.before

\* the part of C25 that holds: the guarded call returns the failure and
\* changes nothing, every call that returns a failure has one of the two
\* exit codes and has changed nothing, and a failed call that has changed a
\* file is one that passed both guards and was left by the ValidationError
\* of a blank project name
FailureReturnChangesNothing ==
    ret.op = "initialize_project" =>
        /\ (check_already_initialized(ret.before) /\ ~ret.force) =>
                /\ ReturnedFailure(ret.result)
                /\ ret.result.exit_code = EXIT_ALREADY_INITIALIZED
                /\ fields = ret.before
        /\ ReturnedFailure(ret.result) =>
                /\ fields = ret.before
                /\ ret.result.exit_code \in {EXIT_ALREADY_INITIALIZED, EXIT_NOT_GIT_REPO}
        /\ (Failed(ret.result) /\ fields # ret.before) =>
                /\ ret.result.raised = "ValidationError"
                /\ ~check_already_initialized(ret.before) \/ ret.force

----------------------------------------------------------------------------
(* SpecStore: saves that fail                                              *)

\* the saves that created their temporary file and ended with the OSError
\* of a later step
FailedSaves ==
    {i \in Writers : w[i].pc = "done" /\ w[i].raised = "OSError" /\ w[i].calls # <<>>}

\* the failed saves whose finally block did unlink the temporary file
CleanedSaves == {i \in FailedSaves : Last(w[i].calls) = Call("unlink", w[i].temp_path)}

\* what holds of every failed save, whether its unlink worked or not: the
\* error reaches the caller, state.yaml is not renamed over, and a temporary
\* file left in the spec directory is that of a failed save whose os.unlink
\* failed as well
FailedSaveLeavesDestination ==
    /\ \A i \in Writers :
            (w[i].pc = "done" /\ "unlink" \in Elems(Ops(w[i].calls))) => w[i].raised = "OSError"
    /\ \A i \in FailedSaves :
            /\ i \notin Elems(log)
            /\ "replace" \notin Elems(Ops(w[i].calls))
    /\ log = <<>> => file = oldDoc
    /\ \A n \in TmpNames :
            disk[n].exists =>
                \E i \in Writers :
                    /\ w[i].temp_path = n
                    /\ w[i].pc \in HoldsTemp \/ i \in FailedSaves \ CleanedSaves

\* C28: a save that fails after it created its temporary file ends with the
\* error raised to its caller, has not renamed anything over state.yaml (so
\* state.yaml is as before the calls while no save succeeded) and has
\* removed its temporary file; a temporary file is in the spec directory
\* only while the save that created it is running, so none remains after a
\* save that succeeded either
C28_FailedSaveLeavesNoTrace ==
    /\ \A n \in TmpNames :
            disk[n].exists => \E i \in Writers : w[i].pc \in HoldsTemp /\ w[i].temp_path = n
    /\ \A i \in Writers :
            (w[i].pc = "done" /\ "unlink" \in Elems(Ops(w[i].calls))) => w[i].raised = "OSError"
    /\ \A i \in FailedSaves :
            /\ i \notin Elems(log)
            /\ "replace" \notin Elems(Ops(w[i].calls))
            /\ Last(w[i].calls) = Call("unlink", w[i].temp_path)
    /\ log = <<>> => file = oldDoc
    /\ (\A i \in Writers : w[i].pc = "done") => \A n \in TmpNames : ~disk[n].exists

----------------------------------------------------------------------------
(* tests/e2e/conftest.py: StageTracker, pytest_runtest_setup,              *)
(* pytest_runtest_makereport                                               *)

\* first_failure = None
NoFailure == [set |-> FALSE, stage |-> 0]

FirstFailure(stage) == [set |-> TRUE, stage |-> stage]

\* the tracker after __init__ and after reset(): stage_status is a dict,
\* here a function on the stages that have a status
NewTracker == [first_failure |-> NoFailure, stage_status |-> <<>>]

\* self.stage_status[stage] = status
set_status(stage_status, stage, status) ==
    [s \in DOMAIN stage_status \cup {stage} |->
        IF s = stage THEN status ELSE stage_status[s]]

mark_passed(tracker, stage) ==
    [tracker EXCEPT !.stage_status = set_status(@, stage, "passed")]

\* a mark_failed that keeps the lowest failed stage
mark_failed_Lowest(tracker, stage) ==
    [tracker EXCEPT !.stage_status = set_status(@, stage, "failed"),
                    !.first_failure = IF ~@.set \/ stage < @.stage
                                      THEN FirstFailure(stage) ELSE @]

mark_failed(tracker, stage) ==
    [tracker EXCEPT !.stage_status = set_status(@, stage, "failed"),
                    !.first_failure = IF ~@.set THEN FirstFailure(stage) ELSE @]

mark_skipped(tracker, stage) ==
    [tracker EXCEPT !.stage_status = set_status(@, stage, "skipped")]

should_skip(tracker, stage) ==
    IF ~tracker.first_failure.set THEN FALSE
    ELSE stage > tracker.first_failure.stage

\* self.stage_status.get(stage, StageStatus.PENDING)
get_status(tracker, stage) ==
    IF stage \in DOMAIN tracker.stage_status THEN tracker.stage_status[stage]
    ELSE "pending"

----------------------------------------------------------------------------
(* SpecStages: the singleton tracker, called directly and by the hooks     *)
(* around the tests of the stages                                          *)

MaxStage == 3

\* the number of calls recorded since the last reset
MaxCalls == 3

Stages == 1..MaxStage

StageCall(op, stage) == [op |-> op, stage |-> stage]

\* the test that pytest is running: none, or a test of a stage in its setup
\* phase or in its call phase (the test body)
NoItem == [when |-> "none", stage |-> 0]

Item(when, stage) == [when |-> when, stage |-> stage]

InitStages ==
    /\ clock = 0
    /\ feature = NoFeature
    /\ error = NoError
    /\ file = NoFile
    /\ prevFile = NoFile
    /\ ret = NoRet
    /\ fields = NewTracker
    /\ pc = NoItem
    /\ disk = [n \in TmpNames |-> NoFile]
    /\ pending = <<>>
    /\ tmpName = NoTmp
    /\ oldDoc = NoFile
    /\ w = [i \in Writers |-> IdleWriter]
    /\ rd = IdleReader
    /\ log = <<>>
    /\ hist = <<>>
    /\ dirExists = TRUE

stageFrame == <<feature, error, file, prevFile, disk, pending, tmpName, oldDoc,
                w, rd, log, dirExists, clock>>

MarkPassed(stage) ==
    /\ Len(hist) < MaxCalls
    /\ fields' = mark_passed(fields, stage)
    /\ hist' = Append(hist, StageCall("mark_passed", stage))
    /\ ret' = [op |-> "mark_passed", stage |-> stage, result |-> FALSE]
    /\ UNCHANGED <<pc, stageFrame>>

MarkFailed(stage) ==
    /\ Len(hist) < MaxCalls
    /\ fields' = mark_failed(fields, stage)
    /\ hist' = Append(hist, StageCall("mark_failed", stage))
    /\ ret' = [op |-> "mark_failed", stage |-> stage, result |-> FALSE]
    /\ UNCHANGED <<pc, stageFrame>>

MarkSkipped(stage) ==
    /\ Len(hist) < MaxCalls
    /\ fields' = mark_skipped(fields, stage)
    /\ hist' = Append(hist, StageCall("mark_skipped", stage))
    /\ ret' = [op |-> "mark_skipped", stage |-> stage, result |-> FALSE]
    /\ UNCHANGED <<pc, stageFrame>>

ShouldSkip(stage) ==
    /\ ret' = [op |-> "should_skip", stage |-> stage, result |-> should_skip(fields, stage)]
    /\ UNCHANGED <<fields, hist, pc, stageFrame>>

Reset ==
    /\ fields' = NewTracker
    /\ hist' = <<>>
    /\ ret' = [op |-> "reset", stage |-> 0, result |-> FALSE]
    /\ UNCHANGED <<pc, stageFrame>>

\* pytest_runtest_setup(item), lines 418-441, for the next test of the
\* session: pytest.skip() when should_skip(stage), which ends the test;
\* otherwise the hook returns and the setup phase goes on with the fixtures
pytest_runtest_setup(stage) ==
    /\ pc = NoItem
    /\ IF should_skip(fields, stage)
       THEN /\ ret' = [op |-> "run_test", stage |-> stage, result |-> FALSE]
            /\ pc' = NoItem
       ELSE /\ ret' = [op |-> "pytest_runtest_setup", stage |-> stage, result |-> TRUE]
            /\ pc' = Item("setup", stage)
    /\ UNCHANGED <<fields, hist, stageFrame>>

\* pytest_runtest_makereport(item, call), lines 444-478, for the report of
\* the phase the test is in.  A report of the setup phase is not looked at:
\* when the setup passed the test body runs next, when a fixture failed the
\* test ends with nothing marked.  The report of the call phase marks the
\* stage passed or failed; a report that is neither (the body called
\* pytest.skip()) marks nothing.
pytest_runtest_makereport(outcome) ==
    /\ pc # NoItem
    /\ IF pc.when = "setup"
       THEN /\ outcome \in {"passed", "failed"}
            /\ pc' = IF outcome = "passed" THEN Item("call", pc.stage) ELSE NoItem
            /\ ret' = IF outcome = "passed"
                      THEN [op |-> "pytest_runtest_makereport", stage |-> pc.stage, result |-> FALSE]
                      ELSE [op |-> "run_test", stage |-> pc.stage, result |-> FALSE]
            /\ UNCHANGED <<fields, hist>>
       ELSE /\ outcome \in {"passed", "failed"} => Len(hist) < MaxCalls
            /\ fields' = IF outcome = "passed" THEN mark_passed(fields, pc.stage)
                         ELSE IF outcome = "failed" THEN mark_failed(fields, pc.stage)
                         ELSE fields
            /\ hist' = IF outcome = "passed"
                       THEN Append(hist, StageCall("mark_passed", pc.stage))
                       ELSE IF outcome = "failed"
                       THEN Append(hist, StageCall("mark_failed", pc.stage))
                       ELSE hist
            /\ pc' = NoItem
            /\ ret' = [op |-> "run_test", stage |-> pc.stage, result |-> TRUE]
    /\ UNCHANGED stageFrame

\* the calls of the tracker are made by the hooks and by whatever else holds
\* the singleton: a fixture or a test body between two hooks, a test without
\* a stage marker
NextStages ==
    \/ \E stage \in Stages :
        \/ MarkPassed(stage) \/ MarkFailed(stage) \/ MarkSkipped(stage) \/ ShouldSkip(stage)
        \/ pytest_runtest_setup(stage)
    \/ \E outcome \in {"passed", "failed", "skipped"} : pytest_runtest_makereport(outcome)
    \/ Reset

SpecStages == InitStages /\ [][NextStages]_vars

\* the positions of the mark_failed calls since the last reset
FailedCalls == {k \in DOMAIN hist : hist[k].op = "mark_failed"}

\* C29: first_failure is the stage of the first mark_failed call since the
\* last reset, whatever was called after it; should_skip(s) is true exactly
\* when first_failure is set and s > first_failure; reset leaves no failure
\* and an empty status map
C29_FirstFailureIsFirstMarkFailed ==
    /\ fields.first_failure =
            IF FailedCalls = {} THEN NoFailure
            ELSE FirstFailure(hist[Min(FailedCalls)].stage)
    /\ ret.op = "should_skip" =>
            (ret.result <=> (fields.first_failure.set /\ ret.stage > fields.first_failure.stage))
    /\ ret.op = "reset" =>
            /\ fields.first_failure = NoFailure
            /\ DOMAIN fields.stage_status = {}

\* a stage failed, then a lower stage failed, and should_skip was asked for
\* a stage above the first failure
C29_Witness ==
    /\ Cardinality(FailedCalls) >= 2
    /\ \E k \in FailedCalls : hist[k].stage < hist[Min(FailedCalls)].stage
    /\ ret.op = "should_skip"
    /\ ret.result

\* C30: between resets the status of a stage changes from PENDING only, so
\* a stage recorded as FAILED is not set to PASSED by a later call, and the
\* stage equal to first_failure has the status FAILED
C30_StatusChangesFromPendingOnly ==
    /\ [](fields.first_failure.set =>
            get_status(fields, fields.first_failure.stage) = "failed")
    /\ [][ret'.op # "reset" =>
            \A stage \in Stages :
                get_status(fields', stage) # get_status(fields, stage) =>
                    get_status(fields, stage) = "pending"]_vars

=============================================================================
